---- MODULE Spec2Model ----
(***************************************************************************)
(* AI BBS: the SQLite-backed store (bbs_server/db/database.py) and the     *)
(* FastAPI handlers in front of it (bbs_server/main.py).                   *)
(*                                                                         *)
(* Tables are sequences of rows in insertion order.  Every stored          *)
(* timestamp (created_at, timestamp) is datetime.utcnow() at the insert,   *)
(* taken to be strictly later on every later insert into the same table,   *)
(* so a row's position in its table stands for its timestamp and           *)
(* "ORDER BY timestamp" is insertion order.  Free text that no code path   *)
(* inspects (shibboleth text, notification message) is left out of rows.   *)
(***************************************************************************)
EXTENDS Integers, Sequences, FiniteSets, TLC

VARIABLES
    identities,     \* table identities, rows in insertion order
    posts,          \* table posts, rows in insertion order
    likes,          \* table likes: set of <<post_id, user_key>> (its primary key)
    notifications,  \* table notifications, rows in insertion order
    request_counts, \* main.request_counts: per key, admitted requests < 1 minute old
    ret,            \* what the last call returned to its caller
    conn,           \* race specifications: per connection, the call in progress
    db_lock         \* race specifications: the connections holding SQLite's write lock

vars == <<identities, posts, likes, notifications, request_counts, ret, conn, db_lock>>

-----------------------------------------------------------------------------
(* Bounds of the model *)

\* Components per embedding vector (database.VECTOR_DIM is 384; scaled down).
VECTOR_DIM == 5
\* Rows the identities table may hold.
MaxIdentities == 2
\* Rows the posts table may hold.
MaxPosts == 2
\* Entries one post's appends list may hold.
MaxAppends == 2
\* Rows the notifications table may hold.
MaxNotifications == 2
\* Requests per key per minute (main.RATE_LIMIT is 60; scaled down).
RATE_LIMIT == 1

\* SIMILARITY_THRESHOLD = 0.85 as the fraction ThresholdNum / ThresholdDen.
ThresholdNum == 85
ThresholdDen == 100

None == "None"

-----------------------------------------------------------------------------
(* Vectors and cosine similarity *)

Pad(v) == [i \in 1..VECTOR_DIM |-> IF i <= Len(v) THEN v[i] ELSE 0]

\* Embeddings used as inputs.  VB is at cosine exactly 17/20 = 0.85 from VA,
\* VC is orthogonal to VA, VD is within the threshold of both VA and VB,
\* VE is just below the threshold from VA (8/sqrt(89) ~ 0.848).
VA == Pad(<<1, 0, 0, 0, 0>>)
VB == Pad(<<17, 10, 3, 1, 1>>)
VC == Pad(<<0, 1, 0, 0, 0>>)
VD == Pad(<<9, 1, 0, 0, 0>>)
VE == Pad(<<8, 5, 0, 0, 0>>)
\* A vector of the wrong length.
VShort == <<1, 0>>

\* Vector components are integers standing for floats.  Storage keeps float32:
\* a 24-bit significand, so an integer of larger magnitude is rounded to the
\* nearest multiple of its unit in the last place, ties to even.
RECURSIVE Ulp(_)
Ulp(a) == IF a < 16777216 THEN 1 ELSE 2 * Ulp(a \div 2)

Float32(x) ==
    LET a == IF x < 0 THEN -x ELSE x
        u == Ulp(a)
        q == a \div u
        r == a % u
        rounded == IF 2 * r > u \/ (2 * r = u /\ q % 2 = 1) THEN (q + 1) * u ELSE q * u
    IN  IF x < 0 THEN -rounded ELSE rounded

\* np.array(vec, dtype=np.float32).tobytes()
serialize_vector(vec) == [i \in 1..Len(vec) |-> Float32(vec[i])]

\* np.frombuffer(data, dtype=np.float32).tolist(): float32 widens exactly.
deserialize_vector(data) == data

RECURSIVE DotTo(_, _, _)
DotTo(a, b, n) == IF n = 0 THEN 0 ELSE a[n] * b[n] + DotTo(a, b, n - 1)

\* np.dot(a, b) for equal-length vectors.
Dot(a, b) == DotTo(a, b, Len(a))

\* np.linalg.norm(a) squared.
NormSq(a) == Dot(a, a)

RECURSIVE GCD(_, _)
GCD(m, n) == IF n = 0 THEN m ELSE GCD(n, m % n)

\* The real number num / sqrt(den2), kept exact as its sign and its square n2 / d2
\* in lowest terms.  den2 = 0 gives the float nan (d2 = 0).
Real(num, den2) ==
    IF den2 = 0 THEN [sign |-> 0, n2 |-> 0, d2 |-> 0]
    ELSE LET g == GCD(num * num, den2)
         IN  [sign |-> IF num > 0 THEN 1 ELSE IF num < 0 THEN -1 ELSE 0,
              n2 |-> (num * num) \div g, d2 |-> den2 \div g]

\* The exception np.dot raises for one-dimensional arrays of different lengths
\* ("shapes (m,) and (n,) not aligned").
ValueError == [raised |-> "ValueError"]

\* (a slip: the norm of the first vector is used twice)
cosine_similarity_first_norm(vec1, vec2) ==
    IF Len(vec1) # Len(vec2) THEN ValueError
    ELSE Real(Dot(vec1, vec2), NormSq(vec1) * NormSq(vec1))

\* cosine_similarity(vec1, vec2) = np.dot(a, b) / (norm(a) * norm(b)); a zero norm
\* makes the division produce nan.
cosine_similarity(vec1, vec2) ==
    IF Len(vec1) # Len(vec2) THEN ValueError
    ELSE Real(Dot(vec1, vec2), NormSq(vec1) * NormSq(vec2))

\* The embeddings of the right length that requests carry, and cosine_similarity
\* over them, computed once.
Vectors == <<VA, VB, VC, VD, VE>>

RECURSIVE SimilarityRows(_, _)
SimilarityRows(m, n) ==
    IF m = 0 THEN <<>>
    ELSE IF n = 0 THEN SimilarityRows(m - 1, Len(Vectors))
    ELSE (<<Vectors[m], Vectors[n]>> :> cosine_similarity(Vectors[m], Vectors[n]))
         @@ SimilarityRows(m, n - 1)

SimilarityTable == SimilarityRows(Len(Vectors), Len(Vectors))
Similarity(vec1, vec2) == SimilarityTable[<<vec1, vec2>>]

IsNaN(s) == s.d2 = 0

\* s >= t on floats: false when either side is nan.
SimGE(s, t) ==
    /\ ~IsNaN(s)
    /\ ~IsNaN(t)
    /\ \/ s.sign >= 0 /\ t.sign < 0
       \/ s.sign >= 0 /\ t.sign >= 0 /\ s.n2 * t.d2 >= t.n2 * s.d2
       \/ s.sign < 0 /\ t.sign < 0 /\ s.n2 * t.d2 <= t.n2 * s.d2

SimGT(s, t) == SimGE(s, t) /\ ~SimGE(t, s)

SIMILARITY_THRESHOLD == Real(ThresholdNum, ThresholdDen * ThresholdDen)

\* (a slip: > where the code has >=)
AboveThresholdStrict(s) == SimGT(s, SIMILARITY_THRESHOLD)

\* similarity >= SIMILARITY_THRESHOLD
AboveThreshold(s) == SimGE(s, SIMILARITY_THRESHOLD)

\* results.sort(key=lambda x: x[1], reverse=True); results[:1] over the rows of
\* `scan` (indices into `rows`, in scan order) that pass the threshold: the first
\* row in scan order whose similarity no other passing row exceeds.
PassingOf(rows, scan, vec, field) ==
    SelectSeq(scan, LAMBDA i :
                  AboveThreshold(Similarity(vec, deserialize_vector(rows[i][field]))))

TopOf(rows, scan, vec, field) ==
    LET pass == PassingOf(rows, scan, vec, field)
        simOf(i) == Similarity(vec, deserialize_vector(rows[i][field]))
        best == {j \in 1..Len(pass) :
                    \A k \in 1..Len(pass) : ~SimGT(simOf(pass[k]), simOf(pass[j]))}
    IN  IF pass = <<>> THEN 0
        ELSE pass[CHOOSE j \in best : \A k \in best : j <= k]

-----------------------------------------------------------------------------
(* Identity operations (database.py) *)

Keys == {"k1", "k2", "k3"}
Names == {"n1", "n2", "n3"}
IPs == {"ip1", "ip2", "ip3"}

Indices(rows) == 1..Len(rows)
KeysOf(ids) == {ids[i].public_key : i \in Indices(ids)}

\* (a slip: the UNIQUE constraint on wireguard_ip is missing)
CollidesNoIp(ids, display_name, public_key, wireguard_ip) ==
    \E i \in Indices(ids) :
        \/ ids[i].public_key = public_key
        \/ ids[i].display_name = display_name

\* The INSERT raises sqlite3.IntegrityError: public_key is the PRIMARY KEY,
\* display_name and wireguard_ip are UNIQUE.
Collides(ids, display_name, public_key, wireguard_ip) ==
    \E i \in Indices(ids) :
        \/ ids[i].public_key = public_key
        \/ ids[i].display_name = display_name
        \/ ids[i].wireguard_ip = wireguard_ip

IdentityRow(display_name, public_key, wireguard_ip, shibboleth_vector) ==
    [public_key |-> public_key, display_name |-> display_name,
     wireguard_ip |-> wireguard_ip,
     shibboleth_vector |-> serialize_vector(shibboleth_vector), approved |-> FALSE]

\* db.register_identity: the table afterwards, and the value returned.
db_register_identity_result(ids, display_name, public_key, wireguard_ip) ==
    ~Collides(ids, display_name, public_key, wireguard_ip)

db_register_identity(ids, display_name, public_key, wireguard_ip, shibboleth_vector) ==
    IF Collides(ids, display_name, public_key, wireguard_ip)
    THEN ids
    ELSE Append(ids, IdentityRow(display_name, public_key, wireguard_ip,
                                 shibboleth_vector))

\* An Optional[dict] result is a sequence: <<row>>, or <<>> for Python's None.
Nothing == <<>>

\* db.get_identity_by_key / by_ip / by_name (the columns are unique: at most one row).
get_identity_by_key(ids, public_key) ==
    SelectSeq(ids, LAMBDA row : row.public_key = public_key)

get_identity_by_ip(ids, wireguard_ip) ==
    SelectSeq(ids, LAMBDA row : row.wireguard_ip = wireguard_ip)

get_identity_by_name(ids, display_name) ==
    SelectSeq(ids, LAMBDA row : row.display_name = display_name)

\* (a slip: only approved identities are scanned)
find_similar_shibboleths_approved(ids, vector) ==
    TopOf(ids, SelectSeq([i \in Indices(ids) |-> i], LAMBDA i : ids[i].approved),
          vector, "shibboleth_vector")

\* db.find_similar_shibboleths(vector, limit=1): index of the row returned, 0 if
\* the list is empty.  SELECT * FROM identities scans in insertion order.
find_similar_shibboleths(ids, vector) ==
    TopOf(ids, [i \in Indices(ids) |-> i], vector, "shibboleth_vector")

\* (a slip: the UPDATE flips the flag)
db_approve_identity_toggle(ids, public_key) ==
    [i \in Indices(ids) |->
        IF ids[i].public_key = public_key
        THEN [ids[i] EXCEPT !.approved = ~@]
        ELSE ids[i]]

\* db.approve_identity: UPDATE identities SET approved = 1 WHERE public_key = ?
db_approve_identity(ids, public_key) ==
    [i \in Indices(ids) |->
        IF ids[i].public_key = public_key
        THEN [ids[i] EXCEPT !.approved = TRUE]
        ELSE ids[i]]

\* result.rowcount > 0: the rows the WHERE clause matched.
db_approve_identity_result(ids, public_key) ==
    \E i \in Indices(ids) : ids[i].public_key = public_key

\* (a slip: the approved column is not looked at)
is_identity_registered(ids, public_key) ==
    \E i \in Indices(ids) : ids[i].public_key = public_key

\* db.is_identity_approved
is_identity_approved(ids, public_key) ==
    \E i \in Indices(ids) : ids[i].public_key = public_key /\ ids[i].approved

-----------------------------------------------------------------------------
(* The store called directly, as the test fixtures do: identities *)

NoCall == [op |-> "none", status |-> 0]

InitStore ==
    /\ identities = <<>>
    /\ posts = <<>>
    /\ likes = {}
    /\ notifications = <<>>
    /\ request_counts = [k \in Keys |-> 0]
    /\ ret = NoCall
    /\ conn = <<>>
    /\ db_lock = {}

CallRegisterIdentity ==
    \E display_name \in Names, public_key \in Keys, wireguard_ip \in IPs :
        /\ \/ Collides(identities, display_name, public_key, wireguard_ip)
           \/ Len(identities) < MaxIdentities
        /\ identities' = db_register_identity(identities, display_name, public_key,
                                              wireguard_ip, VA)
        /\ ret' = [op |-> "db.register_identity",
                   args |-> [display_name |-> display_name, public_key |-> public_key,
                             wireguard_ip |-> wireguard_ip],
                   result |-> db_register_identity_result(identities, display_name,
                                                          public_key, wireguard_ip)]
        /\ UNCHANGED <<posts, likes, notifications, request_counts, conn, db_lock>>

CallApproveIdentity ==
    \E public_key \in Keys :
        /\ identities' = db_approve_identity(identities, public_key)
        /\ ret' = [op |-> "db.approve_identity", args |-> [public_key |-> public_key],
                   result |-> db_approve_identity_result(identities, public_key)]
        /\ UNCHANGED <<posts, likes, notifications, request_counts, conn, db_lock>>

CallIsIdentityApproved ==
    \E public_key \in Keys :
        /\ ret' = [op |-> "db.is_identity_approved", args |-> [public_key |-> public_key],
                   result |-> is_identity_approved(identities, public_key)]
        /\ UNCHANGED <<identities, posts, likes, notifications, request_counts, conn,
                       db_lock>>

NextIdentityStore == CallRegisterIdentity \/ CallApproveIdentity \/ CallIsIdentityApproved

SpecIdentityStore == InitStore /\ [][NextIdentityStore]_vars

-----------------------------------------------------------------------------
(* Post, append and like operations (database.py) *)

\* Post ids are uuid4 strings: a new post gets an id no stored row and no earlier
\* request has used.  NoSuchPost is an id a caller made up; it names no post.
PostIdPool == <<"p1", "p2", "p3", "p4", "p5", "p6">>
NoSuchPost == "nonexistent-post-id"

\* str(uuid.uuid4())
FreshId(ps) == PostIdPool[Len(ps) + 1]

PostIdsOf(ps) == {ps[i].id : i \in Indices(ps)}

PostRow(id, author, author_key, content, vector, hashtags, parent_id) ==
    [id |-> id, author |-> author, author_key |-> author_key, content |-> content,
     vector |-> serialize_vector(vector), hashtags |-> hashtags, likes |-> 0,
     parent_id |-> parent_id, appends |-> <<>>]

\* db.create_post: an unconditional INSERT.  The FOREIGN KEY clauses of the schema
\* are not enforced (no connection sets PRAGMA foreign_keys), so author_key and
\* parent_id are stored as given.
db_create_post(ps, id, author, author_key, content, vector, hashtags, parent_id) ==
    Append(ps, PostRow(id, author, author_key, content, vector, hashtags, parent_id))

\* db.get_post
get_post(ps, post_id) == SelectSeq(ps, LAMBDA row : row.id = post_id)

\* (a slip: the author check is missing)
db_append_to_post_result_any(ps, post_id, author_key) ==
    get_post(ps, post_id) # Nothing

\* db.append_to_post: `if not post or post['author_key'] != author_key: return False`
db_append_to_post_result(ps, post_id, author_key) ==
    /\ get_post(ps, post_id) # Nothing
    /\ get_post(ps, post_id)[1].author_key = author_key

\* (a slip: the new entry is put in front of the list)
db_append_to_post_prepending(ps, post_id, author_key, content) ==
    IF db_append_to_post_result(ps, post_id, author_key)
    THEN [i \in Indices(ps) |->
            IF ps[i].id = post_id
            THEN [ps[i] EXCEPT !.appends = <<content>> \o @]
            ELSE ps[i]]
    ELSE ps

\* The appends entry {timestamp, content}: its position in the list stands for
\* its timestamp.
db_append_to_post(ps, post_id, author_key, content) ==
    IF db_append_to_post_result(ps, post_id, author_key)
    THEN [i \in Indices(ps) |->
            IF ps[i].id = post_id
            THEN [ps[i] EXCEPT !.appends = Append(@, content)]
            ELSE ps[i]]
    ELSE ps

\* (a slip: the counter is incremented on a duplicate like too)
LikeIsNewAlways(ls, post_id, user_key) == TRUE

\* db.like_post: the INSERT into likes succeeds unless (post_id, user_key) is
\* already a row (PRIMARY KEY); the FOREIGN KEY on post_id is not enforced.
LikeIsNew(ls, post_id, user_key) == <<post_id, user_key>> \notin ls

db_like_post_ledger(ls, post_id, user_key) == ls \cup {<<post_id, user_key>>}

\* (a slip: the UPDATE has no WHERE clause)
db_like_post_every(ps, ls, post_id, user_key) ==
    IF LikeIsNew(ls, post_id, user_key)
    THEN [i \in Indices(ps) |-> [ps[i] EXCEPT !.likes = @ + 1]]
    ELSE ps

\* UPDATE posts SET likes = likes + 1 WHERE id = ?, skipped on IntegrityError.
db_like_post(ps, ls, post_id, user_key) ==
    IF LikeIsNew(ls, post_id, user_key)
    THEN [i \in Indices(ps) |->
            IF ps[i].id = post_id THEN [ps[i] EXCEPT !.likes = @ + 1] ELSE ps[i]]
    ELSE ps

\* (a slip: the counter is read before the update)
db_like_post_result_before(ps, ls, post_id, user_key) ==
    IF get_post(ps, post_id) = Nothing THEN 0 ELSE get_post(ps, post_id)[1].likes

\* `return row['likes'] if row else 0`, read after the commit.
db_like_post_result(ps, ls, post_id, user_key) ==
    LET after == db_like_post(ps, ls, post_id, user_key)
    IN  IF get_post(after, post_id) = Nothing THEN 0 ELSE get_post(after, post_id)[1].likes

-----------------------------------------------------------------------------
(* The store called directly: posts, appends and likes *)

\* (author, author_key) pairs the callers pass.
StoreAuthors == {<<"n1", "k1">>, <<"n2", "k2">>}
StoreLikers == {"k1", "k2"}
AppendContents == {"x", "y"}
\* Post content without a mention.
NoMentions == <<>>

CallCreatePost ==
    \E a \in StoreAuthors, parent_id \in PostIdsOf(posts) \cup {None, NoSuchPost} :
        /\ Len(posts) < MaxPosts
        /\ posts' = db_create_post(posts, FreshId(posts), a[1], a[2], NoMentions, VA,
                                   <<>>, parent_id)
        /\ ret' = [op |-> "db.create_post", result |-> FreshId(posts)]
        /\ UNCHANGED <<identities, likes, notifications, request_counts, conn, db_lock>>

CallAppendToPost ==
    \E post_id \in PostIdsOf(posts) \cup {NoSuchPost}, author_key \in StoreLikers,
       content \in AppendContents :
        /\ db_append_to_post_result(posts, post_id, author_key)
            => Len(get_post(posts, post_id)[1].appends) < MaxAppends
        /\ posts' = db_append_to_post(posts, post_id, author_key, content)
        /\ ret' = [op |-> "db.append_to_post",
                   args |-> [post_id |-> post_id, author_key |-> author_key,
                             content |-> content],
                   result |-> db_append_to_post_result(posts, post_id, author_key)]
        /\ UNCHANGED <<identities, likes, notifications, request_counts, conn, db_lock>>

CallLikePost ==
    \E post_id \in PostIdsOf(posts) \cup {NoSuchPost}, user_key \in StoreLikers :
        /\ posts' = db_like_post(posts, likes, post_id, user_key)
        /\ likes' = db_like_post_ledger(likes, post_id, user_key)
        /\ ret' = [op |-> "db.like_post",
                   args |-> [post_id |-> post_id, user_key |-> user_key],
                   result |-> db_like_post_result(posts, likes, post_id, user_key)]
        /\ UNCHANGED <<identities, notifications, request_counts, conn, db_lock>>

\* Appends and likes touch different columns of a post; each is explored with
\* post creation in a specification of its own.
NextAppendStore == CallCreatePost \/ CallAppendToPost

SpecAppendStore == InitStore /\ [][NextAppendStore]_vars

NextLikeStore == CallCreatePost \/ CallLikePost

SpecLikeStore == InitStore /\ [][NextLikeStore]_vars

-----------------------------------------------------------------------------
(* Similarity scan over posts, and notifications (database.py) *)

\* Rows a dedup scan reads (LIMIT 1000 in find_similar_posts; scaled down).
RecentWindow == 2

RECURSIVE NewestFirst(_, _)
NewestFirst(n, count) ==
    IF n = 0 \/ count = 0 THEN <<>> ELSE <<n>> \o NewestFirst(n - 1, count - 1)

\* (a slip: the LIMIT is missing)
ScanWindowUnbounded(ps) == NewestFirst(Len(ps), Len(ps))

\* SELECT * FROM posts ORDER BY timestamp DESC LIMIT 1000: row indices, newest first.
ScanWindow(ps) == NewestFirst(Len(ps), RecentWindow)

\* db.find_similar_posts(vector, limit=1): index of the row returned, 0 if none.
find_similar_posts(ps, vector) == TopOf(ps, ScanWindow(ps), vector, "vector")

NotificationRow(user_key, type, post_id, from_user) ==
    [user_key |-> user_key, type |-> type, post_id |-> post_id,
     from_user |-> from_user, read |-> FALSE]

\* db.create_notification
create_notification(ns, user_key, type, post_id, from_user) ==
    Append(ns, NotificationRow(user_key, type, post_id, from_user))

\* db.get_notifications(user_key): the unread rows of the user, newest first.
RECURSIVE Reverse(_)
Reverse(seq) == IF seq = <<>> THEN <<>> ELSE Reverse(Tail(seq)) \o <<Head(seq)>>

get_notifications(ns, user_key) ==
    Reverse(SelectSeq(ns, LAMBDA n : n.user_key = user_key /\ ~n.read))

\* (a slip: the WHERE clause is missing)
db_mark_notifications_read_everyone(ns, user_key) ==
    [i \in Indices(ns) |-> [ns[i] EXCEPT !.read = TRUE]]

\* db.mark_notifications_read: UPDATE notifications SET read = 1 WHERE user_key = ?
db_mark_notifications_read(ns, user_key) ==
    [i \in Indices(ns) |->
        IF ns[i].user_key = user_key THEN [ns[i] EXCEPT !.read = TRUE] ELSE ns[i]]

-----------------------------------------------------------------------------
(* Request handling (main.py) *)

\* A caller: the X-BBS-Identity header (None when absent) and the source address.
Caller(header, ip) == [header |-> header, ip |-> ip]

\* main.get_identity_from_request: the header wins; no fallback to the address
\* when the header names no identity.
get_identity_from_request(ids, caller) ==
    IF caller.header # None THEN get_identity_by_key(ids, caller.header)
    ELSE IF caller.ip # None THEN get_identity_by_ip(ids, caller.ip)
    ELSE Nothing

\* main.check_rate_limit: request_counts[k] holds the admitted requests of k that
\* are less than a minute old (older ones are dropped at the next check).
check_rate_limit(counts, user_key) == counts[user_key] < RATE_LIMIT

check_rate_limit_counts(counts, user_key) ==
    IF counts[user_key] < RATE_LIMIT
    THEN [counts EXCEPT ![user_key] = @ + 1]
    ELSE counts

\* (a slip: the approval check is missing)
require_identity_any_status(ids, counts, caller) ==
    LET who == get_identity_from_request(ids, caller)
    IN  IF who = Nothing THEN 401
        ELSE IF ~check_rate_limit(counts, who[1].public_key) THEN 429
        ELSE 200

\* main.require_identity: 401, 403, 429, or 200 when the request is admitted.
require_identity(ids, counts, caller) ==
    LET who == get_identity_from_request(ids, caller)
    IN  IF who = Nothing THEN 401
        ELSE IF ~is_identity_approved(ids, who[1].public_key) THEN 403
        ELSE IF ~check_rate_limit(counts, who[1].public_key) THEN 429
        ELSE 200

\* request_counts after the dependency ran.
require_identity_counts(ids, counts, caller) ==
    LET who == get_identity_from_request(ids, caller)
    IN  IF require_identity(ids, counts, caller) \in {200, 429}
        THEN check_rate_limit_counts(counts, who[1].public_key)
        ELSE counts

\* An HTTPException: the status code and the detail text.
Error(status, detail) == [op |-> "", status |-> status, detail |-> detail]

\* What a handler body answered, with the request it answered.
Response(op, req, body) == [op |-> op, req |-> req] @@ body

RefusalDetail(status) ==
    CASE status = 401 -> "Identity required"
      [] status = 403 -> "Identity pending approval"
      [] status = 429 -> "Rate limit exceeded"

\* A request the dependency refused: the handler body does not run.
Refused(caller) ==
    LET status == require_identity(identities, request_counts, caller)
    IN  /\ status # 200
        /\ ret' = Error(status, RefusalDetail(status))
        /\ request_counts' = require_identity_counts(identities, request_counts, caller)
        /\ UNCHANGED <<identities, posts, likes, notifications, conn, db_lock>>

Admitted(caller) ==
    /\ require_identity(identities, request_counts, caller) = 200
    /\ request_counts' = require_identity_counts(identities, request_counts, caller)

\* Time passes: the oldest recorded request of a key becomes a minute old.
TimePasses ==
    \E k \in Keys :
        /\ request_counts[k] > 0
        /\ request_counts' = [request_counts EXCEPT ![k] = @ - 1]
        /\ UNCHANGED <<identities, posts, likes, notifications, ret, conn, db_lock>>

\* Post content is the sequence of its maximal runs of word characters (\w+),
\* each one item, and of its other characters, each one item: "@n2 hi" is
\* <<"@", "n2", " ", "hi">>.  Two words are never adjacent.
NonWordChars == {"@", " ", "-"}
IsWord(item) == item \notin NonWordChars

\* re.findall(r'(?<!\w)@(\w+)', content): the words that follow an "@" that no
\* word character precedes, in order; `before` is the item before `content`.
RECURSIVE findall_from(_, _)
findall_from(content, before) ==
    IF Len(content) < 2 THEN <<>>
    ELSE IF content[1] = "@" /\ ~IsWord(before) /\ IsWord(content[2])
    THEN <<content[2]>> \o findall_from(SubSeq(content, 3, Len(content)), content[2])
    ELSE findall_from(Tail(content), content[1])

findall_mentions(content) == findall_from(content, " ")

\* (a slip: the seen_mentions filter is missing)
DistinctInOrderKeepingRepeats(names, seen) == names

\* The seen_mentions filter of the mention loop: the distinct names, in order of
\* first mention.
RECURSIVE DistinctInOrder(_, _)
DistinctInOrder(names, seen) ==
    IF names = <<>> THEN <<>>
    ELSE IF Head(names) \in seen THEN DistinctInOrder(Tail(names), seen)
    ELSE <<Head(names)>> \o DistinctInOrder(Tail(names), seen \cup {Head(names)})

\* The mention loop of create_post: one notification per distinct mentioned name
\* that is a registered display name of somebody other than the author.
RECURSIVE MentionNotifications(_, _, _, _, _)
MentionNotifications(ns, ids, names, me, post_id) ==
    IF names = <<>> THEN ns
    ELSE LET mentioned_user == get_identity_by_name(ids, Head(names))
             next == IF mentioned_user # Nothing
                        /\ mentioned_user[1].public_key # me.public_key
                     THEN create_notification(ns, mentioned_user[1].public_key,
                                              "mention", post_id, me.display_name)
                     ELSE ns
         IN  MentionNotifications(next, ids, Tail(names), me, post_id)

\* (a slip: the author of the parent is notified of their own reply too)
ReplyNotificationToSelf(ns, ps, parent_id, me, post_id) ==
    LET parent == get_post(ps, parent_id)
    IN  IF parent_id # None /\ parent # Nothing
        THEN create_notification(ns, parent[1].author_key, "reply", post_id,
                                 me.display_name)
        ELSE ns

\* The reply notification of create_post.
ReplyNotification(ns, ps, parent_id, me, post_id) ==
    LET parent == get_post(ps, parent_id)
    IN  IF parent_id # None /\ parent # Nothing /\ parent[1].author_key # me.public_key
        THEN create_notification(ns, parent[1].author_key, "reply", post_id,
                                 me.display_name)
        ELSE ns

\* (a slip: the dedup scan is never made)
SkipDedupAlways(force) == TRUE

\* `if not post.force:` guards the dedup scan.
SkipDedup(force) == force

\* POST /posts
create_post(post, caller) ==
    \/ Refused(caller)
    \/ /\ Admitted(caller)
       /\ LET me == get_identity_from_request(identities, caller)[1]
              similar == IF SkipDedup(post.force) THEN 0
                         ELSE find_similar_posts(posts, post.vector)
              post_id == FreshId(posts)
              created == db_create_post(posts, post_id, me.display_name, me.public_key,
                                        post.content, post.vector, post.hashtags,
                                        post.parent_id)
              notified == MentionNotifications(
                              ReplyNotification(notifications, created, post.parent_id,
                                                me, post_id),
                              identities,
                              DistinctInOrder(findall_mentions(post.content), {}),
                              me, post_id)
          IN  IF Len(post.vector) # VECTOR_DIM
              THEN /\ ret' = Response("create_post", post,
                                       Error(400, "Vector must have VECTOR_DIM dimensions"))
                   /\ UNCHANGED <<posts, notifications>>
              ELSE IF similar # 0
              THEN /\ ret' = Response("create_post", post,
                              [status |-> 200, id |-> "",
                               warning |-> <<[similar_post_id |-> posts[similar].id,
                                              similarity |->
                                                  Similarity(post.vector,
                                                                    posts[similar].vector)]>>])
                   /\ UNCHANGED <<posts, notifications>>
              ELSE /\ Len(posts) < MaxPosts
                   /\ Len(notified) <= MaxNotifications
                   /\ posts' = created
                   /\ notifications' = notified
                   /\ ret' = Response("create_post", post,
                                       [status |-> 200, id |-> post_id,
                                        warning |-> Nothing])
       /\ UNCHANGED <<identities, likes, conn, db_lock>>

\* POST /posts/{post_id}/append
append_to_post(post_id, content, caller) ==
    \/ Refused(caller)
    \/ /\ Admitted(caller)
       /\ LET me == get_identity_from_request(identities, caller)[1]
              success == db_append_to_post_result(posts, post_id, me.public_key)
          IN  /\ success => Len(get_post(posts, post_id)[1].appends) < MaxAppends
              /\ posts' = db_append_to_post(posts, post_id, me.public_key, content)
              /\ ret' = Response("append_to_post",
                                  [post_id |-> post_id, content |-> content],
                                  IF success THEN [status |-> 200, success |-> TRUE]
                                  ELSE Error(403,
                                             "Post not found or you are not the author"))
       /\ UNCHANGED <<identities, likes, notifications, conn, db_lock>>

\* (a slip: the author is notified of their own like too)
like_post_notifying_self(post_id, caller) ==
    \/ Refused(caller)
    \/ /\ Admitted(caller)
       /\ LET me == get_identity_from_request(identities, caller)[1]
              post == get_post(posts, post_id)
          IN  IF post = Nothing
              THEN /\ ret' = Response("like_post", post_id, Error(404, "Post not found"))
                   /\ UNCHANGED <<posts, likes, notifications>>
              ELSE /\ Len(notifications) < MaxNotifications
                   /\ posts' = db_like_post(posts, likes, post_id, me.public_key)
                   /\ likes' = db_like_post_ledger(likes, post_id, me.public_key)
                   /\ notifications' =
                        create_notification(notifications, post[1].author_key,
                                            "like", post_id, me.display_name)
                   /\ ret' = Response("like_post", post_id,
                                [status |-> 200,
                                 likes |-> db_like_post_result(posts, likes, post_id,
                                                               me.public_key)])
       /\ UNCHANGED <<identities, conn, db_lock>>

\* POST /posts/{post_id}/like
like_post(post_id, caller) ==
    \/ Refused(caller)
    \/ /\ Admitted(caller)
       /\ LET me == get_identity_from_request(identities, caller)[1]
              post == get_post(posts, post_id)
          IN  IF post = Nothing
              THEN /\ ret' = Response("like_post", post_id, Error(404, "Post not found"))
                   /\ UNCHANGED <<posts, likes, notifications>>
              ELSE /\ post[1].author_key # me.public_key
                        => Len(notifications) < MaxNotifications
                   /\ posts' = db_like_post(posts, likes, post_id, me.public_key)
                   /\ likes' = db_like_post_ledger(likes, post_id, me.public_key)
                   /\ notifications' =
                        IF post[1].author_key # me.public_key
                        THEN create_notification(notifications, post[1].author_key,
                                                 "like", post_id, me.display_name)
                        ELSE notifications
                   /\ ret' = Response("like_post", post_id,
                                [status |-> 200,
                                 likes |-> db_like_post_result(posts, likes, post_id,
                                                               me.public_key)])
       /\ UNCHANGED <<identities, conn, db_lock>>

\* GET /notifications
get_notifications_endpoint(caller) ==
    \/ Refused(caller)
    \/ /\ Admitted(caller)
       /\ LET me == get_identity_from_request(identities, caller)[1]
          IN  ret' = Response("get_notifications", None,
                        [status |-> 200,
                         notifications |-> get_notifications(notifications,
                                                             me.public_key)])
       /\ UNCHANGED <<identities, posts, likes, notifications, conn, db_lock>>

\* POST /notifications/read
mark_notifications_read(caller) ==
    \/ Refused(caller)
    \/ /\ Admitted(caller)
       /\ LET me == get_identity_from_request(identities, caller)[1]
          IN  notifications' = db_mark_notifications_read(notifications, me.public_key)
       /\ ret' = Response("mark_notifications_read", None,
                           [status |-> 200, success |-> TRUE])
       /\ UNCHANGED <<identities, posts, likes, conn, db_lock>>

\* The 409 of the similarity pre-check: the matched identity and the similarity.
TooSimilar(ids, similar, vector) ==
    [status |-> 409, detail |-> "Shibboleth too similar to existing identity",
     existing |-> ids[similar].display_name,
     similarity |-> Similarity(vector, ids[similar].shibboleth_vector)]

\* (a slip: the dimension check is missing.  The scan compares a vector of
\* another length with no row when the table is empty, and raises on the first
\* row otherwise.)
register_identity_unvalidated(reg) ==
    LET wrong == Len(reg.shibboleth_vector) # VECTOR_DIM
        similar == IF wrong THEN 0
                   ELSE find_similar_shibboleths(identities, reg.shibboleth_vector)
        success == db_register_identity_result(identities, reg.display_name,
                                               reg.public_key, reg.wireguard_ip)
    IN  /\ IF wrong /\ identities # <<>>
           THEN /\ ret' = Response("register_identity", reg,
                                    Error(500, "Internal Server Error"))
                /\ UNCHANGED identities
           ELSE IF similar # 0
           THEN /\ ret' = Response("register_identity", reg,
                                    TooSimilar(identities, similar, reg.shibboleth_vector))
                /\ UNCHANGED identities
           ELSE /\ success => Len(identities) < MaxIdentities
                /\ identities' = db_register_identity(identities, reg.display_name,
                                     reg.public_key, reg.wireguard_ip,
                                     reg.shibboleth_vector)
                /\ ret' = Response("register_identity", reg,
                              IF success THEN [status |-> 200, success |-> TRUE]
                              ELSE Error(409,
                                     "Display name, public key, or IP already registered"))
        /\ UNCHANGED <<posts, likes, notifications, request_counts, conn, db_lock>>

\* POST /identity/register
register_identity(reg) ==
    LET similar == find_similar_shibboleths(identities, reg.shibboleth_vector)
        success == db_register_identity_result(identities, reg.display_name,
                                               reg.public_key, reg.wireguard_ip)
    IN  /\ IF Len(reg.shibboleth_vector) # VECTOR_DIM
           THEN /\ ret' = Response("register_identity", reg,
                                    Error(400, "Vector must have VECTOR_DIM dimensions"))
                /\ UNCHANGED identities
           ELSE IF similar # 0
           THEN /\ ret' = Response("register_identity", reg,
                                    TooSimilar(identities, similar, reg.shibboleth_vector))
                /\ UNCHANGED identities
           ELSE /\ success => Len(identities) < MaxIdentities
                /\ identities' = db_register_identity(identities, reg.display_name,
                                     reg.public_key, reg.wireguard_ip,
                                     reg.shibboleth_vector)
                /\ ret' = Response("register_identity", reg,
                              IF success THEN [status |-> 200, success |-> TRUE]
                              ELSE Error(409,
                                     "Display name, public key, or IP already registered"))
        /\ UNCHANGED <<posts, likes, notifications, request_counts, conn, db_lock>>

\* wg.is_valid_wg_public_key: 44 base64 characters ending in "=".  Of the keys
\* callers send here, only this one is not well formed.
MalformedKey == "not-a-wg-key"
is_valid_wg_public_key(key) == key # MalformedKey

\* POST /wireguard/register.  wg.generate_client_address parses SUBNET_PREFIX
\* "fd00:abbs::" with ipaddress.IPv6Address, which raises AddressValueError ("abbs" is
\* not hexadecimal): every request that gets past the key check ends in an
\* unhandled exception (500) before db.register_identity is reached.
wireguard_register(req) ==
    LET similar == find_similar_shibboleths(identities, req.shibboleth_vector)
    IN  /\ IF Len(req.shibboleth_vector) # VECTOR_DIM
           THEN ret' = Response("wireguard_register", req,
                                Error(400, "Vector must have VECTOR_DIM dimensions"))
           ELSE IF similar # 0
           THEN ret' = Response("wireguard_register", req,
                                TooSimilar(identities, similar, req.shibboleth_vector))
           ELSE IF req.public_key # None /\ ~is_valid_wg_public_key(req.public_key)
           THEN ret' = Response("wireguard_register", req,
                                Error(400, "Invalid WireGuard public key format"))
           ELSE ret' = Response("wireguard_register", req,
                                Error(500, "Internal Server Error"))
        /\ UNCHANGED <<identities, posts, likes, notifications, request_counts,
                       conn, db_lock>>

\* POST /admin/approve/{public_key}.  wg.add_peer runs the wg binary after the
\* update is committed; when the binary is missing subprocess.run raises and the
\* response is a 500.
approve_identity(public_key) ==
    \E wg_installed \in BOOLEAN :
        /\ identities' = db_approve_identity(identities, public_key)
        /\ ret' = Response("approve_identity", public_key,
                     IF ~db_approve_identity_result(identities, public_key)
                     THEN Error(404, "Identity not found")
                     ELSE IF wg_installed THEN [status |-> 200, success |-> TRUE]
                     ELSE Error(500, "Internal Server Error"))
        /\ UNCHANGED <<posts, likes, notifications, request_counts, conn, db_lock>>

-----------------------------------------------------------------------------
(* The registration endpoints *)

RegRequests ==
    [display_name : {"n1", "n2"}, public_key : {"k1", "k2"},
     wireguard_ip : {"ip1", "ip2"}, shibboleth_vector : {VA, VB, VC, VD, VShort}]

WgRequests ==
    [display_name : {"n1", "n2"}, public_key : {None, "k1", MalformedKey},
     shibboleth_vector : {VA, VB, VC, VShort}]

NextRegister ==
    \/ \E reg \in RegRequests : register_identity(reg)
    \/ \E req \in WgRequests : wireguard_register(req)
    \/ \E public_key \in {"k1", "k2"} : approve_identity(public_key)

SpecRegister == InitStore /\ [][NextRegister]_vars

-----------------------------------------------------------------------------
(* The API, for two users *)

\* The registrations made in these specifications, in the order they are made.
Roster ==
    <<[display_name |-> "n1", public_key |-> "k1", wireguard_ip |-> "ip1",
       shibboleth_vector |-> VA],
      [display_name |-> "n2", public_key |-> "k2", wireguard_ip |-> "ip2",
       shibboleth_vector |-> VC]>>

\* The next user registers.
RegisterNext ==
    /\ Len(identities) < Len(Roster)
    /\ register_identity(Roster[Len(identities) + 1])

\* Callers: the first user by header, the second by source address, a header
\* naming nobody sent from a registered address, and an unknown address.
Callers ==
    {Caller("k1", "ipx"), Caller(None, "ip2"), Caller("kx", "ip1"), Caller(None, "ipx")}

\* Posts and replies over three vectors, a post that mentions the second user
\* twice, and a post whose vector has the wrong length.
PostRequests ==
    [content : {NoMentions}, vector : {VA, VB, VC}, hashtags : {<<>>},
     parent_id : PostIdsOf(posts) \cup {None, NoSuchPost}, force : BOOLEAN]
    \cup {[content |-> <<"@", "n2", " ", "@", "n2">>, vector |-> VC, hashtags |-> <<>>,
           parent_id |-> None, force |-> FALSE],
          [content |-> NoMentions, vector |-> VShort, hashtags |-> <<>>,
           parent_id |-> None, force |-> TRUE]}

\* Who posts: the first user by header, the second by source address, and a
\* header naming nobody.
Posters == {Caller("k1", "ipx"), Caller(None, "ip2"), Caller("kx", "ip1")}

\* Registration, approval and posting.
Next ==
    \/ RegisterNext
    \/ \E public_key \in {"k1", "k2"} : approve_identity(public_key)
    \/ \E post \in PostRequests, caller \in Posters : create_post(post, caller)
    \/ TimePasses

Spec == InitStore /\ [][Next]_vars

\* Registration, approval, plain posts, and what users do to the first post.
PlainPostRequests ==
    {[content |-> NoMentions, vector |-> VA, hashtags |-> <<>>, parent_id |-> None,
      force |-> TRUE]}

Targets == {PostIdPool[1], NoSuchPost}

NextEngage ==
    \/ RegisterNext
    \/ \E public_key \in {"k1", "k2"} : approve_identity(public_key)
    \/ \E post \in PlainPostRequests, caller \in Callers : create_post(post, caller)
    \/ \E post_id \in Targets, caller \in Callers : append_to_post(post_id, "x", caller)
    \/ \E post_id \in Targets, caller \in Callers : like_post(post_id, caller)
    \/ \E caller \in Callers : get_notifications_endpoint(caller)
    \/ \E caller \in Callers : mark_notifications_read(caller)
    \/ TimePasses

SpecEngage == InitStore /\ [][NextEngage]_vars

-----------------------------------------------------------------------------
(* db.like_post on two connections at once *)

(***************************************************************************)
(* Each call opens its own connection (get_db).  sqlite3 opens a           *)
(* transaction before the INSERT; the INSERT takes SQLite's write lock     *)
(* (RESERVED), which one connection holds at a time and keeps until it     *)
(* commits or closes, so a second writer waits in the busy handler.  A     *)
(* writer's changes sit in its own page cache until COMMIT.  The wait is   *)
(* modelled as blocking: the 5 s busy timeout of sqlite3.connect is not.   *)
(***************************************************************************)
Conns == {1, 2}

\* (a slip: no write lock, both connections write at once)
WriteLockFreeAlways(lock, c) == TRUE

\* The INSERT can take the write lock.
WriteLockFree(lock, c) == lock = {}

LikeCall(post_id, user_key) ==
    [pc |-> "insert", post_id |-> post_id, user_key |-> user_key,
     row_pending |-> FALSE, likes_pending |-> <<>>, result |-> <<>>]

\* conn.execute("INSERT INTO likes ...")
LikeInsert(c) ==
    /\ conn[c].pc = "insert"
    /\ WriteLockFree(db_lock, c)
    /\ db_lock' = {c}
    /\ IF LikeIsNew(likes, conn[c].post_id, conn[c].user_key)
       THEN conn' = [conn EXCEPT ![c].pc = "update", ![c].row_pending = TRUE]
       ELSE conn' = [conn EXCEPT ![c].pc = "select"]   \* except IntegrityError: pass
    /\ UNCHANGED <<identities, posts, likes, notifications, request_counts, ret>>

\* conn.execute("UPDATE posts SET likes = likes + 1 WHERE id = ?")
LikeUpdate(c) ==
    /\ conn[c].pc = "update"
    /\ LET row == get_post(posts, conn[c].post_id)
       IN  conn' = [conn EXCEPT ![c].pc = "commit",
                                ![c].likes_pending =
                                    IF row = Nothing THEN <<>> ELSE <<row[1].likes + 1>>]
    /\ UNCHANGED <<identities, posts, likes, notifications, request_counts, ret, db_lock>>

\* conn.commit()
LikeCommit(c) ==
    /\ conn[c].pc = "commit"
    /\ likes' = IF conn[c].row_pending
                THEN likes \cup {<<conn[c].post_id, conn[c].user_key>>}
                ELSE likes
    /\ posts' = [i \in Indices(posts) |->
                    IF posts[i].id = conn[c].post_id /\ conn[c].likes_pending # <<>>
                    THEN [posts[i] EXCEPT !.likes = conn[c].likes_pending[1]]
                    ELSE posts[i]]
    /\ db_lock' = db_lock \ {c}
    /\ conn' = [conn EXCEPT ![c].pc = "select", ![c].row_pending = FALSE,
                            ![c].likes_pending = <<>>]
    /\ UNCHANGED <<identities, notifications, request_counts, ret>>

\* conn.execute("SELECT likes FROM posts WHERE id = ?").fetchone()
LikeSelect(c) ==
    /\ conn[c].pc = "select"
    /\ LET row == get_post(posts, conn[c].post_id)
       IN  conn' = [conn EXCEPT ![c].pc = "close",
                                ![c].result = IF row = Nothing THEN <<0>>
                                              ELSE <<row[1].likes>>]
    /\ UNCHANGED <<identities, posts, likes, notifications, request_counts, ret, db_lock>>

\* get_db's `finally: conn.close()`: an open transaction is rolled back and the
\* lock released.
LikeClose(c) ==
    /\ conn[c].pc = "close"
    /\ conn' = [conn EXCEPT ![c].pc = "done"]
    /\ db_lock' = db_lock \ {c}
    /\ UNCHANGED <<identities, posts, likes, notifications, request_counts, ret>>

\* A post by k1 that k3 may already have liked, and two like_post calls.
InitLikeRace ==
    /\ identities = <<>>
    /\ \E liked \in BOOLEAN :
        /\ likes = IF liked THEN {<<"p1", "k3">>} ELSE {}
        /\ posts = <<[PostRow("p1", "n1", "k1", NoMentions, VA, <<>>, None)
                        EXCEPT !.likes = IF liked THEN 1 ELSE 0]>>
    /\ notifications = <<>>
    /\ request_counts = [k \in Keys |-> 0]
    /\ ret = NoCall
    /\ conn \in [Conns -> {LikeCall(p, k) : p \in {"p1", NoSuchPost}, k \in StoreLikers}]
    /\ db_lock = {}

NextLikeRace ==
    \E c \in Conns :
        LikeInsert(c) \/ LikeUpdate(c) \/ LikeCommit(c) \/ LikeSelect(c) \/ LikeClose(c)

SpecLikeRace == InitLikeRace /\ [][NextLikeRace]_vars

-----------------------------------------------------------------------------
(* POST /identity/register on two connections at once *)

(***************************************************************************)
(* The handler reads the identities table for the similarity pre-check on  *)
(* one connection, then db.register_identity opens another for the INSERT. *)
(* The UNIQUE constraints are checked by the INSERT, under the write lock, *)
(* against the committed rows.                                             *)
(***************************************************************************)
RegisterCall(reg) ==
    [pc |-> "check", reg |-> reg, passed |-> FALSE, row_pending |-> FALSE,
     success |-> FALSE, result |-> <<>>]

\* The dimension check and db.find_similar_shibboleths(reg.shibboleth_vector, limit=1)
RegisterCheck(c) ==
    /\ conn[c].pc = "check"
    /\ LET reg == conn[c].reg
           similar == find_similar_shibboleths(identities, reg.shibboleth_vector)
       IN  IF Len(reg.shibboleth_vector) # VECTOR_DIM
           THEN conn' = [conn EXCEPT ![c].pc = "done",
                            ![c].result =
                                <<Error(400, "Vector must have VECTOR_DIM dimensions")>>]
           ELSE IF similar # 0
           THEN conn' = [conn EXCEPT ![c].pc = "done",
                            ![c].result =
                                <<TooSimilar(identities, similar, reg.shibboleth_vector)>>]
           ELSE conn' = [conn EXCEPT ![c].pc = "insert", ![c].passed = TRUE]
    /\ UNCHANGED <<identities, posts, likes, notifications, request_counts, ret, db_lock>>

\* conn.execute("INSERT INTO identities ...")
RegisterInsert(c) ==
    /\ conn[c].pc = "insert"
    /\ WriteLockFree(db_lock, c)
    /\ db_lock' = db_lock \cup {c}
    /\ LET reg == conn[c].reg
       IN  IF Collides(identities, reg.display_name, reg.public_key, reg.wireguard_ip)
           THEN conn' = [conn EXCEPT ![c].pc = "close"]   \* except IntegrityError
           ELSE conn' = [conn EXCEPT ![c].pc = "commit", ![c].row_pending = TRUE]
    /\ UNCHANGED <<identities, posts, likes, notifications, request_counts, ret>>

\* conn.commit(); return True
RegisterCommit(c) ==
    /\ conn[c].pc = "commit"
    /\ LET reg == conn[c].reg
       IN  identities' = Append(identities,
                                IdentityRow(reg.display_name, reg.public_key,
                                            reg.wireguard_ip, reg.shibboleth_vector))
    /\ db_lock' = db_lock \ {c}
    /\ conn' = [conn EXCEPT ![c].pc = "close", ![c].row_pending = FALSE,
                            ![c].success = TRUE]
    /\ UNCHANGED <<posts, likes, notifications, request_counts, ret>>

\* get_db's `finally: conn.close()`, then the handler's response.
RegisterClose(c) ==
    /\ conn[c].pc = "close"
    /\ db_lock' = db_lock \ {c}
    /\ conn' = [conn EXCEPT
                  ![c].pc = "done",
                  ![c].result =
                      IF conn[c].success THEN <<[status |-> 200, success |-> TRUE]>>
                      ELSE <<Error(409,
                                   "Display name, public key, or IP already registered")>>]
    /\ UNCHANGED <<identities, posts, likes, notifications, request_counts, ret>>

RaceRequests ==
    [display_name : {"n1", "n2"}, public_key : {"k1", "k2"},
     wireguard_ip : {"ip1", "ip2"}, shibboleth_vector : {VA, VC, VShort}]

\* An empty store and two registration requests.
InitRegisterRace ==
    /\ identities = <<>>
    /\ posts = <<>>
    /\ likes = {}
    /\ notifications = <<>>
    /\ request_counts = [k \in Keys |-> 0]
    /\ ret = NoCall
    /\ conn \in [Conns -> {RegisterCall(reg) : reg \in RaceRequests}]
    /\ db_lock = {}

NextRegisterRace ==
    \E c \in Conns :
        RegisterCheck(c) \/ RegisterInsert(c) \/ RegisterCommit(c) \/ RegisterClose(c)

SpecRegisterRace == InitRegisterRace /\ [][NextRegisterRace]_vars

-----------------------------------------------------------------------------
(* Claims about the store called directly *)

\* C6: no two stored identities share a public_key, a display_name or a
\* wireguard_ip, and a db.register_identity call that collides with a stored row on
\* any of the three returns False and leaves the table (the matched row's fields
\* and approved flag included) as it was.
UniqueIdentities ==
    \A i, j \in Indices(identities) :
        i # j => /\ identities[i].public_key # identities[j].public_key
                 /\ identities[i].display_name # identities[j].display_name
                 /\ identities[i].wireguard_ip # identities[j].wireguard_ip

CollisionOn(field, value) == \E i \in Indices(identities) : identities[i][field] = value

CollidingRegistrationFails ==
    (/\ ret'.op = "db.register_identity"
     /\ \/ CollisionOn("public_key", ret'.args.public_key)
        \/ CollisionOn("display_name", ret'.args.display_name)
        \/ CollisionOn("wireguard_ip", ret'.args.wireguard_ip))
    => ret'.result = FALSE /\ identities' = identities

C6_UniqueFields == []UniqueIdentities /\ [][CollidingRegistrationFails]_vars

\* A registration that collided on the address alone was refused while two
\* identities, one of them approved, were stored.
C6_Witness ==
    /\ ret.op = "db.register_identity"
    /\ ret.result = FALSE
    /\ Len(identities) = 2
    /\ \E i \in Indices(identities) : identities[i].approved
    /\ CollisionOn("wireguard_ip", ret.args.wireguard_ip)
    /\ ~CollisionOn("public_key", ret.args.public_key)
    /\ ~CollisionOn("display_name", ret.args.display_name)

\* C8: db.approve_identity(k) returns True only when a row with key k existed and
\* this call changed it from pending to approved; on an approved identity and on an
\* unknown key it returns False and changes nothing.
ApproveReturnsWhetherChanged ==
    ret'.op = "db.approve_identity"
    => /\ ret'.result = (\E i \in Indices(identities) :
                            /\ identities[i].public_key = ret'.args.public_key
                            /\ ~identities[i].approved)
       /\ (ret'.result = FALSE => identities' = identities)

C8_ApproveOnlyOnChange == [][ApproveReturnsWhetherChanged]_vars


\* C1: after any sequence of db.like_post calls made one at a time, every stored
\* post's likes counter equals the number of ledger rows for that post (one per
\* distinct user who liked it), and each call returns the target post's counter
\* as it stands after the call; a duplicate like is answered like any other.
LikersOf(post_id) == {k \in Keys : <<post_id, k>> \in likes}

LikesMatchLedger ==
    \A i \in Indices(posts) : posts[i].likes = Cardinality(LikersOf(posts[i].id))

LikeReturnsCounter ==
    (ret.op = "db.like_post" /\ get_post(posts, ret.args.post_id) # Nothing)
    => /\ ret.result = get_post(posts, ret.args.post_id)[1].likes
       /\ <<ret.args.post_id, ret.args.user_key>> \in likes

C1_LikesCountDistinctUsers == LikesMatchLedger /\ LikeReturnsCounter

\* Both users have liked the first post, the last call was a repeated like and it
\* returned 2.
C1_Witness ==
    /\ Len(posts) >= 1
    /\ LikersOf(posts[1].id) = StoreLikers
    /\ Len(posts) = 2
    /\ ret.op = "db.like_post"
    /\ ret.args.post_id = posts[1].id
    /\ ret.result = 2
    /\ posts[1].likes = 2

\* C3: db.append_to_post returns True exactly when the post exists and the
\* requester's key is the post's author_key; then exactly one entry, the given
\* content, is added at the end of that post's appends and nothing else changes;
\* when it returns False nothing changes.
AppendAuthorized ==
    ret'.op = "db.append_to_post"
    => LET a == ret'.args
           target == get_post(posts, a.post_id)
           ok == target # Nothing /\ target[1].author_key = a.author_key
       IN  /\ ret'.result = ok
           /\ ok => /\ Len(posts') = Len(posts)
                    /\ \A i \in Indices(posts) :
                          IF posts[i].id = a.post_id
                          THEN posts'[i] =
                                 [posts[i] EXCEPT !.appends = Append(@, a.content)]
                          ELSE posts'[i] = posts[i]
           /\ ~ok => posts' = posts
           /\ UNCHANGED <<identities, likes, notifications>>

C3_AppendOnlyByAuthor == [][AppendAuthorized]_vars

\* The author's second append landed after the first, and a call by the other
\* key on the same post was refused.
C3_Witness ==
    /\ ret.op = "db.append_to_post"
    /\ ret.result = FALSE
    /\ get_post(posts, ret.args.post_id) # Nothing
    /\ get_post(posts, ret.args.post_id)[1].appends = <<"x", "y">>

-----------------------------------------------------------------------------
(* Claims about concurrent calls *)

\* C2: when two db.like_post calls on the same existing post run on separate
\* connections with their steps interleaved, both return; afterwards the ledger
\* holds one row per distinct calling user and the counter has grown by exactly
\* that number (1 for the same user twice, 2 for two users); the committed
\* counter equals the committed ledger count at every moment.
RaceCallers(post_id) == {conn[c].user_key : c \in {d \in Conns : conn[d].post_id = post_id}}

LikedBefore(post_id) == Cardinality({k \in {"k3"} : <<post_id, k>> \in likes})

RaceDone == \A c \in Conns : conn[c].pc = "done"

C2_ConcurrentLikes ==
    /\ LikesMatchLedger
    /\ RaceDone =>
        \A i \in Indices(posts) :
            /\ posts[i].likes = LikedBefore(posts[i].id)
                                  + Cardinality(RaceCallers(posts[i].id))
            /\ \A k \in RaceCallers(posts[i].id) : <<posts[i].id, k>> \in likes
            /\ \A c \in Conns : conn[c].result # <<>>

\* Two users' calls on the post interleaved: both rows are stored, the counter
\* went from 1 to 3, and the calls returned 2 and 3.
C2_WitnessTwoUsers ==
    /\ RaceDone
    /\ conn[1].post_id = "p1" /\ conn[2].post_id = "p1"
    /\ conn[1].user_key # conn[2].user_key
    /\ posts[1].likes = 3
    /\ {conn[1].result, conn[2].result} = {<<2>>, <<3>>}

RegistrationsCollide(a, b) ==
    \/ a.display_name = b.display_name
    \/ a.public_key = b.public_key
    \/ a.wireguard_ip = b.wireguard_ip

UniqueFailure == Error(409, "Display name, public key, or IP already registered")

Registered(c) == conn[c].result = <<[status |-> 200, success |-> TRUE]>>

\* C7: when two POST /identity/register requests that collide on display_name,
\* public_key or wireguard_ip run on separate connections and both pass the
\* similarity pre-check, exactly one row is inserted, its request is answered 200
\* and the other gets the plain uniqueness 409 (not the similarity 409); at no
\* moment does the table hold two rows with the same value in a unique column.
C7_ConcurrentRegistrations ==
    /\ UniqueIdentities
    /\ (/\ RaceDone
        /\ \A c \in Conns : conn[c].passed
        /\ RegistrationsCollide(conn[1].reg, conn[2].reg))
       => /\ Len(identities) = 1
          /\ \E c \in Conns :
                /\ Registered(c)
                /\ identities[1].public_key = conn[c].reg.public_key
                /\ identities[1].display_name = conn[c].reg.display_name
                /\ identities[1].wireguard_ip = conn[c].reg.wireguard_ip
                /\ \A d \in Conns \ {c} : conn[d].result = <<UniqueFailure>>

\* Two requests with the same shibboleth vector that collide on the address alone:
\* the loser passed its pre-check before the winner committed (it would have been
\* turned away as too similar otherwise) and was answered with the uniqueness 409.
C7_Witness ==
    /\ RaceDone
    /\ conn[1].reg.shibboleth_vector = VA /\ conn[2].reg.shibboleth_vector = VA
    /\ conn[1].reg.wireguard_ip = conn[2].reg.wireguard_ip
    /\ conn[1].reg.public_key # conn[2].reg.public_key
    /\ conn[1].reg.display_name # conn[2].reg.display_name
    /\ Len(identities) = 1
    /\ Registered(2)
    /\ conn[1].result = <<UniqueFailure>>

-----------------------------------------------------------------------------
(* Claims about the endpoints *)

SimilarityTo(vec, row, field) == Similarity(vec, row[field])

\* Rows among `scan` whose similarity to vec reaches the threshold.
NearRows(rows, scan, vec, field) ==
    {i \in scan : SimGE(SimilarityTo(vec, rows[i], field), SIMILARITY_THRESHOLD)}

\* Row i is one of the rows of `near` most similar to vec.
IsNearest(rows, near, i, vec, field) ==
    /\ i \in near
    /\ \A j \in near : ~SimGT(SimilarityTo(vec, rows[j], field),
                              SimilarityTo(vec, rows[i], field))

Scanned == {ScanWindow(posts)[n] : n \in 1..Len(ScanWindow(posts))}

\* What POST /posts does with an admitted request whose vector has the right
\* length.
CreatePostOutcome(post) ==
    LET near == NearRows(posts, Scanned, post.vector, "vector")
    IN  IF ~post.force /\ near # {}
        THEN /\ ret'.status = 200
             /\ ret'.id = ""
             /\ ret'.warning # Nothing
             /\ \E i \in near :
                   /\ IsNearest(posts, near, i, post.vector, "vector")
                   /\ ret'.warning[1].similar_post_id = posts[i].id
                   /\ ret'.warning[1].similarity =
                          SimilarityTo(post.vector, posts[i], "vector")
             /\ posts' = posts
             /\ notifications' = notifications
        ELSE /\ ret'.status = 200
             /\ ret'.id # ""
             /\ ret'.warning = Nothing
             /\ Len(posts') = Len(posts) + 1
             /\ SubSeq(posts', 1, Len(posts)) = posts
             /\ posts'[Len(posts')].id = ret'.id
             /\ posts'[Len(posts')].vector = post.vector
             /\ posts'[Len(posts')].content = post.content

\* A step in which the rate limiter admitted a request.
RequestAdmitted == \E k \in Keys : request_counts'[k] > request_counts[k]

DedupAtThreshold ==
    (/\ RequestAdmitted
     /\ ret'.op = "create_post"
     /\ Len(ret'.req.vector) = VECTOR_DIM)
    => CreatePostOutcome(ret'.req)

\* C4: POST /posts with force=false answers with a warning and an empty id when
\* some post in the scanned window has cosine similarity >= 0.85 to the submitted
\* vector; the warning names a scanned post of highest similarity and that
\* similarity, and neither a post nor a notification is created.  With force=false
\* and no such post, and with force=true whatever is stored, the post is created
\* and the response carries its id and no warning.
C4_DedupThreshold == [][DedupAtThreshold]_vars

\* Two posts with the same vector are stored (the second was forced), and a
\* request at similarity exactly 0.85 from both was answered with a warning that
\* names the newer one.
C4_Witness ==
    /\ Len(posts) = 2
    /\ posts[1].vector = VA /\ posts[2].vector = VA
    /\ ret.op = "create_post"
    /\ ret.status = 200
    /\ ~ret.req.force
    /\ ret.warning # Nothing
    /\ ret.warning[1].similar_post_id = posts[2].id
    /\ ret.warning[1].similarity = SIMILARITY_THRESHOLD

\* C10: every stored post with a non-null parent_id refers to a stored post.
C10_ParentExists ==
    \A i \in Indices(posts) :
        posts[i].parent_id # None => posts[i].parent_id \in PostIdsOf(posts)

NoSimilarIdentities ==
    \A i, j \in Indices(identities) :
        i # j => ~SimGE(SimilarityTo(identities[i].shibboleth_vector, identities[j],
                                     "shibboleth_vector"),
                        SIMILARITY_THRESHOLD)

\* A registration endpoint turned the request away as too similar.
SimilarityRejection(vector) ==
    LET near == NearRows(identities, Indices(identities), vector, "shibboleth_vector")
    IN  /\ ret'.status = 409
        /\ "existing" \in DOMAIN ret'
        /\ \E i \in near :
              /\ ret'.existing = identities[i].display_name
              /\ ret'.similarity = SimilarityTo(vector, identities[i], "shibboleth_vector")
        /\ identities' = identities

SimilarRegistrationRejected ==
    (/\ ret'.op \in {"register_identity", "wireguard_register"}
     /\ ret' # ret \/ identities' # identities
     /\ Len(ret'.req.shibboleth_vector) = VECTOR_DIM
     /\ NearRows(identities, Indices(identities), ret'.req.shibboleth_vector,
                 "shibboleth_vector") # {})
    => SimilarityRejection(ret'.req.shibboleth_vector)

\* C5: POST /identity/register and POST /wireguard/register, one request at a
\* time, answer 409 naming a matched identity and its similarity, and leave the
\* identities table as it was, whenever a stored identity (pending or approved)
\* is at cosine similarity >= 0.85 from the submitted vector; so no two stored
\* identities are at similarity >= 0.85 from each other.
C5_ShibbolethUnique == []NoSimilarIdentities /\ [][SimilarRegistrationRejected]_vars

\* Two identities are stored, one of them approved, and a request at similarity
\* exactly 0.85 from one of them was turned away.
C5_Witness ==
    /\ Len(identities) = 2
    /\ \E i \in Indices(identities) : identities[i].approved
    /\ ret.op = "register_identity"
    /\ ret.status = 409
    /\ "similarity" \in DOMAIN ret
    /\ ret.similarity = SIMILARITY_THRESHOLD

AuthorsApproved ==
    \A i \in Indices(posts) : is_identity_approved(identities, posts[i].author_key)

LikersApproved == \A l \in likes : is_identity_approved(identities, l[2])

\* 401 for a caller that resolves to no identity, 403 for one that resolves to a
\* pending identity, 0 for an approved one.
RefusalFor(caller) ==
    LET who == get_identity_from_request(identities, caller)
    IN  IF who = Nothing THEN 401 ELSE IF ~who[1].approved THEN 403 ELSE 0

NotServed(caller) ==
    /\ ret'.status = RefusalFor(caller)
    /\ UNCHANGED <<identities, posts, likes, notifications, request_counts>>

\* C9: POST /posts, POST /posts/{id}/append, POST /posts/{id}/like,
\* GET /notifications and POST /notifications/read answer 401 to a caller that
\* resolves to no identity and 403 to one that resolves to a pending identity, and
\* change nothing in either case; every stored post's author_key and every ledger
\* row's user_key is the key of an approved identity.
C9_ApprovedCallersOnly ==
    /\ AuthorsApproved
    /\ LikersApproved
    /\ \A caller \in Callers :
          RefusalFor(caller) # 0
          => /\ \A post \in PlainPostRequests :
                   ~ENABLED (create_post(post, caller) /\ ~NotServed(caller))
             /\ \A post_id \in Targets :
                   /\ ~ENABLED (append_to_post(post_id, "x", caller) /\ ~NotServed(caller))
                   /\ ~ENABLED (like_post(post_id, caller) /\ ~NotServed(caller))
             /\ ~ENABLED (get_notifications_endpoint(caller) /\ ~NotServed(caller))
             /\ ~ENABLED (mark_notifications_read(caller) /\ ~NotServed(caller))

\* The second user, registered and still pending, was answered 403 while the first
\* user's post, liked by its author, was stored.
C9_Witness ==
    /\ ret = Error(403, "Identity pending approval")
    /\ Len(identities) = 2
    /\ is_identity_approved(identities, "k1")
    /\ ~is_identity_approved(identities, "k2")
    /\ Len(posts) >= 1
    /\ <<posts[1].id, "k1">> \in likes

-----------------------------------------------------------------------------
(* Reading posts (database.py) *)

\* Text that SQL inspects character by character is a sequence of one-character
\* strings.  The hashtags of the model:
TagAi == <<"a", "i">>
TagAI == <<"A", "I">>
TagA == <<"a">>
TagWild == <<"a", "_">>

\* json.dumps(hashtags), the text kept in the hashtags column: ["ai", "ml"].  A row
\* of the model keeps the list itself, which is what json.loads gives back.
JsonChar(c) == IF c \in {"\"", "\\"} THEN <<"\\", c>> ELSE <<c>>

RECURSIVE JsonChars(_)
JsonChars(s) == IF s = <<>> THEN <<>> ELSE JsonChar(Head(s)) \o JsonChars(Tail(s))

JsonString(s) == <<"\"">> \o JsonChars(s) \o <<"\"">>

RECURSIVE JsonItems(_)
JsonItems(list) ==
    IF list = <<>> THEN <<>>
    ELSE IF Len(list) = 1 THEN JsonString(list[1])
    ELSE JsonString(Head(list)) \o <<",", " ">> \o JsonItems(Tail(list))

json_dumps(list) == <<"[">> \o JsonItems(list) \o <<"]">>

\* SQLite folds the case of ASCII letters in LIKE (the letters of the model).
Lower(c) == CASE c = "A" -> "a" [] c = "I" -> "i" [] OTHER -> c

\* text LIKE pattern: % matches any run of characters, _ any one character, and
\* every other character matches itself without regard to case.
RECURSIVE Like(_, _)
Like(text, pattern) ==
    IF pattern = <<>> THEN text = <<>>
    ELSE IF Head(pattern) = "%"
    THEN Like(text, Tail(pattern)) \/ (text # <<>> /\ Like(Tail(text), pattern))
    ELSE IF text = <<>> THEN FALSE
    ELSE /\ Head(pattern) = "_" \/ Lower(Head(pattern)) = Lower(Head(text))
         /\ Like(Tail(text), Tail(pattern))

\* `if hashtag:` is false for None and for the empty string; <<>> is either.
NoHashtag == <<>>
HashtagGiven(hashtag) == hashtag # <<>>

\* hashtags LIKE '%"<hashtag>"%'
MatchesHashtag(row, hashtag) ==
    Like(json_dumps(row.hashtags), <<"%", "\"">> \o hashtag \o <<"\"", "%">>)

\* The rows a SELECT over posts returns, as indices into the table in the order
\* of `scan`: WHERE hashtags LIKE ? when a hashtag is given, AND parent_id IS NULL
\* when only top-level posts are wanted.
PostsWhere(ps, scan, hashtag, top_level) ==
    SelectSeq(scan, LAMBDA i :
                  /\ HashtagGiven(hashtag) => MatchesHashtag(ps[i], hashtag)
                  /\ top_level => ps[i].parent_id = None)

\* ORDER BY timestamp DESC / ORDER BY timestamp (or no ORDER BY: rowid order).
TimestampDesc(ps) == NewestFirst(Len(ps), Len(ps))
TimestampAsc(ps) == [i \in Indices(ps) |-> i]

\* seq[start:stop] in Python: a negative index counts from the end, and both ends
\* are clipped to the list.
PyIndex(n, k) ==
    IF k < 0 THEN (IF n + k < 0 THEN 0 ELSE n + k) ELSE IF k > n THEN n ELSE k

PySlice(seq, start, stop) ==
    LET lo == PyIndex(Len(seq), start)
        hi == PyIndex(Len(seq), stop)
    IN  IF hi <= lo THEN <<>> ELSE SubSeq(seq, lo + 1, hi)

\* LIMIT ? OFFSET ? in SQLite: a negative LIMIT is no limit, a negative OFFSET is 0.
SqlLimitOffset(seq, limit, offset) ==
    LET skip == IF offset < 0 THEN 0 ELSE offset
        rest == IF skip >= Len(seq) THEN <<>> ELSE SubSeq(seq, skip + 1, Len(seq))
    IN  IF limit < 0 \/ limit >= Len(rest) THEN rest ELSE SubSeq(rest, 1, limit)

\* results.sort(key=lambda x: x[1], reverse=True): a stable sort, so entries of
\* equal score keep the order they were appended in.
RECURSIVE InsertScored(_, _)
InsertScored(sorted, x) ==
    IF sorted = <<>> THEN <<x>>
    ELSE IF SimGT(x.similarity, Head(sorted).similarity) THEN <<x>> \o sorted
    ELSE <<Head(sorted)>> \o InsertScored(Tail(sorted), x)

RECURSIVE SortScored(_)
SortScored(results) ==
    IF results = <<>> THEN <<>>
    ELSE InsertScored(SortScored(SubSeq(results, 1, Len(results) - 1)),
                      results[Len(results)])

\* The (post, similarity) pairs of the rows `rows`, in that order; a post is
\* given by its id.
Scored(ps, rows, vector) ==
    [k \in 1..Len(rows) |->
        [id |-> ps[rows[k]].id,
         similarity |-> Similarity(vector, deserialize_vector(ps[rows[k]].vector))]]

\* (a slip: the LIMIT 1000 of the dedup scan copied into the search)
db_search_posts_windowed(ps, query_vector, hashtag, limit, offset) ==
    LET rows == PostsWhere(ps, ScanWindow(ps), hashtag, FALSE)
    IN  PySlice(SortScored(Scored(ps, rows, query_vector)), offset, offset + limit)

\* db.search_posts
db_search_posts(ps, query_vector, hashtag, limit, offset) ==
    LET rows == PostsWhere(ps, TimestampDesc(ps), hashtag, FALSE)
    IN  PySlice(SortScored(Scored(ps, rows, query_vector)), offset, offset + limit)

\* db.find_similar_posts with any limit: results[:limit].
db_find_similar_posts(ps, vector, limit) ==
    LET results == SelectSeq(Scored(ps, ScanWindow(ps), vector),
                             LAMBDA r : AboveThreshold(r.similarity))
    IN  PySlice(SortScored(results), 0, limit)

\* The scan loops of search_posts and find_similar_posts call
\* cosine_similarity(query, deserialize_vector(row['vector'])) for every row
\* they read, with no try/except: a row whose vector has another length than
\* the query makes np.dot raise, and the exception leaves the function.
ScanRaises(ps, rows, vector) ==
    \E k \in 1..Len(rows) :
        cosine_similarity(vector, deserialize_vector(ps[rows[k]].vector)) = ValueError

search_posts_raises(ps, query_vector, hashtag) ==
    ScanRaises(ps, PostsWhere(ps, TimestampDesc(ps), hashtag, FALSE), query_vector)

find_similar_posts_raises(ps, vector) == ScanRaises(ps, ScanWindow(ps), vector)

\* SELECT COUNT(*) FROM posts WHERE parent_id = ?
ReplyCount(ps, post_id) == Cardinality({j \in Indices(ps) : ps[j].parent_id = post_id})

\* A listed post: its id and the reply_count the listing adds to it.
Listed(ps, rows) ==
    [k \in 1..Len(rows) |->
        [id |-> ps[rows[k]].id, reply_count |-> ReplyCount(ps, ps[rows[k]].id)]]

\* (a slip: AND parent_id IS NULL is missing)
db_list_posts_with_replies(ps, hashtag, limit, offset) ==
    Listed(ps, SqlLimitOffset(PostsWhere(ps, TimestampDesc(ps), hashtag, FALSE),
                              limit, offset))

\* db.list_posts
db_list_posts(ps, hashtag, limit, offset) ==
    Listed(ps, SqlLimitOffset(PostsWhere(ps, TimestampDesc(ps), hashtag, TRUE),
                              limit, offset))

\* db.get_replies: the ids of the replies, oldest first.
get_replies(ps, post_id) ==
    LET rows == SelectSeq(TimestampAsc(ps), LAMBDA i : ps[i].parent_id = post_id)
    IN  [k \in 1..Len(rows) |-> ps[rows[k]].id]

\* (a slip: a reply counts as much as a like)
EngagementRepliesOnce(ps, i) == ps[i].likes + ReplyCount(ps, ps[i].id)

\* engagement = post['likes'] + (reply_count * 2)
Engagement(ps, i) == ps[i].likes + 2 * ReplyCount(ps, ps[i].id)

\* The clock.  The age of a row when the listing is computed, (now - post_time),
\* is an input of the listing, in tenths of an hour: just posted, an hour old,
\* two hours old.  Rows are stored in the order they are posted, so an earlier
\* row is at least as old as a later one.
HourTenths == {0, 10, 20}

Clock(ps) ==
    {hours \in [Indices(ps) -> HourTenths] :
        \A i, j \in Indices(ps) : i < j => hours[i] >= hours[j]}

\* hours_since = max((now - post_time).total_seconds() / 3600, 0.1)
HoursSince(age) == IF age < 1 THEN 1 ELSE age

\* hotness = engagement / ((hours_since + 2) ** 1.5): for an age of t tenths of
\* an hour, the real number whose square is 1000 engagement^2 / (t + 20)^3.
Hotness(engagement, age) ==
    LET t == HoursSince(age) + 20
        n == 1000 * engagement * engagement
        d == t * t * t
        g == GCD(n, d)
    IN  [sign |-> IF engagement > 0 THEN 1 ELSE IF engagement < 0 THEN -1 ELSE 0,
         n2 |-> n \div g, d2 |-> d \div g]

\* scored_posts.sort(key=lambda x: x[1], reverse=True): a stable sort.
RECURSIVE InsertHot(_, _)
InsertHot(sorted, x) ==
    IF sorted = <<>> THEN <<x>>
    ELSE IF SimGT(x.hotness, Head(sorted).hotness) THEN <<x>> \o sorted
    ELSE <<Head(sorted)>> \o InsertHot(Tail(sorted), x)

RECURSIVE SortHot(_)
SortHot(scored) ==
    IF scored = <<>> THEN <<>>
    ELSE InsertHot(SortHot(SubSeq(scored, 1, Len(scored) - 1)), scored[Len(scored)])

\* db.list_posts_hot, for the ages `hours` the clock gives the rows: the
\* (post, hotness) pairs, a post given by its id and its reply_count.
db_list_posts_hot_at(ps, hashtag, limit, offset, hours) ==
    LET rows == PostsWhere(ps, TimestampAsc(ps), hashtag, TRUE)
        scored_posts == [k \in 1..Len(rows) |->
                            [id |-> ps[rows[k]].id,
                             reply_count |-> ReplyCount(ps, ps[rows[k]].id),
                             hotness |-> Hotness(Engagement(ps, rows[k]),
                                                 hours[rows[k]])]]
    IN  PySlice(SortHot(scored_posts), offset, offset + limit)

\* db.list_posts_hot: the lists it can return, whatever the clock reads, the
\* hotness scores left out.
db_list_posts_hot(ps, hashtag, limit, offset) ==
    {[k \in DOMAIN scored |-> [id |-> scored[k].id,
                               reply_count |-> scored[k].reply_count]] :
        scored \in {db_list_posts_hot_at(ps, hashtag, limit, offset, hours) :
                       hours \in Clock(ps)}}

-----------------------------------------------------------------------------
(* The public read endpoints (main.py) *)

\* The page size the feed and search handlers clamp `limit` to (100 in main.py;
\* scaled down).
LimitCap == 2

\* `if limit > 100: limit = 100`
ClampLimit(limit) == IF limit > LimitCap THEN LimitCap ELSE limit

\* A handler without the identity dependency that only reads.  The middleware
\* add_notifications reads too (it counts the caller's unread notifications).
Answer(op, req, body) ==
    /\ ret' = Response(op, req, body)
    /\ UNCHANGED <<identities, posts, likes, notifications, request_counts, conn, db_lock>>

FeedRequest(hashtag, limit, offset) ==
    [hashtag |-> hashtag, limit |-> limit, offset |-> offset]

\* GET /posts
list_posts(hashtag, limit, offset) ==
    Answer("list_posts", FeedRequest(hashtag, limit, offset),
           [status |-> 200,
            posts |-> db_list_posts(posts, hashtag, ClampLimit(limit), offset)])

\* GET /posts/new
list_posts_new(hashtag, limit, offset) ==
    Answer("list_posts_new", FeedRequest(hashtag, limit, offset),
           [status |-> 200,
            posts |-> db_list_posts(posts, hashtag, ClampLimit(limit), offset)])

\* GET /posts/hot
list_posts_hot(hashtag, limit, offset) ==
    \E results \in db_list_posts_hot(posts, hashtag, ClampLimit(limit), offset) :
        Answer("list_posts_hot", FeedRequest(hashtag, limit, offset),
               [status |-> 200, posts |-> results])

\* POST /search.  The requests of the model leave `algorithm` out, so the
\* results are returned in the order db.search_posts gives them; the handler
\* passes no offset.
search_posts(search) ==
    IF Len(search.query_vector) # VECTOR_DIM
    THEN Answer("search_posts", search,
                Error(400, "Vector must have VECTOR_DIM dimensions"))
    ELSE Answer("search_posts", search,
                [status |-> 200,
                 results |-> db_search_posts(posts, search.query_vector, search.hashtag,
                                             ClampLimit(search.limit), 0)])

\* GET /posts/{post_id}
get_post_endpoint(post_id) ==
    IF get_post(posts, post_id) = Nothing
    THEN Answer("get_post", post_id, Error(404, "Post not found"))
    ELSE Answer("get_post", post_id,
                [status |-> 200, post |-> get_post(posts, post_id)[1],
                 replies |-> get_replies(posts, post_id)])

-----------------------------------------------------------------------------
(* The whole API, for two users *)

SearchRequest(query_vector, hashtag, limit) ==
    [hashtag |-> hashtag, limit |-> limit, query_vector |-> query_vector]

\* A post like the first one, sent without force: the dedup scan runs.
RepeatedPostRequests ==
    {[content |-> NoMentions, vector |-> VA, hashtags |-> <<>>, parent_id |-> None,
      force |-> FALSE]}

NextBoard ==
    \/ NextEngage
    \/ \E post \in RepeatedPostRequests, caller \in Callers : create_post(post, caller)
    \/ \E post_id \in Targets : get_post_endpoint(post_id)
    \/ list_posts(NoHashtag, 1, 0)
    \/ list_posts_new(NoHashtag, 1, 0)
    \/ list_posts_hot(NoHashtag, 1, 0)
    \/ search_posts(SearchRequest(VA, NoHashtag, 1))
    \/ wireguard_register([display_name |-> "n3", public_key |-> "k3",
                           shibboleth_vector |-> VB])

SpecBoard == InitStore /\ [][NextBoard]_vars

-----------------------------------------------------------------------------
(* The store called directly: searching *)

\* Rows the posts table may hold in the specifications that read it.
MaxStored == 3

\* What is stored to be searched: a tagged post, a post at cosine exactly 0.85
\* from it, a tagged reply orthogonal to it, and a reply just under the threshold.
SearchedPosts ==
    {[vector |-> VA, hashtags |-> <<TagAi>>, reply |-> FALSE],
     [vector |-> VB, hashtags |-> <<>>, reply |-> FALSE],
     [vector |-> VC, hashtags |-> <<TagAi>>, reply |-> TRUE],
     [vector |-> VE, hashtags |-> <<>>, reply |-> TRUE]}

\* db.create_post for one of the posts `stock`; a reply is a reply to the first
\* post stored.
StorePost(stock) ==
    \E p \in stock :
        /\ Len(posts) < MaxStored
        /\ p.reply => posts # <<>>
        /\ posts' = db_create_post(posts, FreshId(posts), "n1", "k1", NoMentions,
                                   p.vector, p.hashtags,
                                   IF p.reply THEN posts[1].id ELSE None)
        /\ ret' = [op |-> "db.create_post", result |-> FreshId(posts)]
        /\ UNCHANGED <<identities, likes, notifications, request_counts, conn, db_lock>>

\* A call that reads the posts table.
Read(op, args, result) ==
    /\ ret' = [op |-> op, args |-> args, result |-> result]
    /\ UNCHANGED <<identities, posts, likes, notifications, request_counts, conn, db_lock>>

\* A call that raised: the caller gets the exception and no result.
Raise(op, args) ==
    /\ ret' = [op |-> op, args |-> args, raised |-> "ValueError"]
    /\ UNCHANGED <<identities, posts, likes, notifications, request_counts, conn, db_lock>>

CallSearchPosts ==
    \E query_vector \in {VA, VC}, hashtag \in {NoHashtag, TagAi},
       limit \in {-1, 0, 1, 2, 3}, offset \in {0, 1} :
        IF search_posts_raises(posts, query_vector, hashtag)
        THEN Raise("db.search_posts",
                   [query_vector |-> query_vector, hashtag |-> hashtag,
                    limit |-> limit, offset |-> offset])
        ELSE Read("db.search_posts",
                  [query_vector |-> query_vector, hashtag |-> hashtag, limit |-> limit,
                   offset |-> offset],
                  db_search_posts(posts, query_vector, hashtag, limit, offset))

CallFindSimilarPosts ==
    \E vector \in {VA, VB, VC}, limit \in {0, 1, 2, 3} :
        IF find_similar_posts_raises(posts, vector)
        THEN Raise("db.find_similar_posts", [vector |-> vector, limit |-> limit])
        ELSE Read("db.find_similar_posts", [vector |-> vector, limit |-> limit],
                  db_find_similar_posts(posts, vector, limit))

NextSearch ==
    \/ StorePost(SearchedPosts)
    \/ CallSearchPosts
    \/ CallFindSimilarPosts

SpecSearch == InitStore /\ [][NextSearch]_vars

-----------------------------------------------------------------------------
(* The store called directly: listing *)

\* What is stored to be listed: a post tagged "ai", a post tagged "a" and "AI", an
\* untagged post, and a reply tagged "ai".
ListedPosts ==
    {[vector |-> VA, hashtags |-> <<TagAi>>, reply |-> FALSE],
     [vector |-> VA, hashtags |-> <<TagA, TagAI>>, reply |-> FALSE],
     [vector |-> VA, hashtags |-> <<>>, reply |-> FALSE],
     [vector |-> VA, hashtags |-> <<TagAi>>, reply |-> TRUE]}

\* The hashtags asked for: none, "ai", "AI", "a" and "a_".
Hashtags == {NoHashtag, TagAi, TagAI, TagA, TagWild}

ListArgs(hashtag, limit, offset) == [hashtag |-> hashtag, limit |-> limit, offset |-> offset]

CallListPosts ==
    \E hashtag \in Hashtags, limit \in {-1, 1, MaxStored}, offset \in {-1, 0, 1} :
        Read("db.list_posts", ListArgs(hashtag, limit, offset),
             db_list_posts(posts, hashtag, limit, offset))

CallListPostsHot ==
    \E hashtag \in Hashtags, limit \in {1, MaxStored}, offset \in {0} :
        \E result \in db_list_posts_hot(posts, hashtag, limit, offset) :
            Read("db.list_posts_hot", ListArgs(hashtag, limit, offset), result)

CallSearchHashtag ==
    \E hashtag \in Hashtags :
        Read("db.search_posts",
             [query_vector |-> VA, hashtag |-> hashtag, limit |-> MaxStored, offset |-> 0],
             db_search_posts(posts, VA, hashtag, MaxStored, 0))

CallGetReplies ==
    \E post_id \in PostIdsOf(posts) \cup {NoSuchPost} :
        Read("db.get_replies", [post_id |-> post_id], get_replies(posts, post_id))

NextListing ==
    \/ StorePost(ListedPosts)
    \/ CallListPosts
    \/ CallListPostsHot
    \/ CallSearchHashtag
    \/ CallGetReplies

SpecListing == InitStore /\ [][NextListing]_vars

-----------------------------------------------------------------------------
(* The feed and search endpoints over a stored board *)

\* The limits callers ask for: negative, zero, within the cap, and above it.
FeedLimits == {-1, 0, 1, LimitCap, LimitCap + 1, LimitCap + 2}

NextFeed ==
    \/ StorePost(ListedPosts)
    \/ \E hashtag \in {NoHashtag, TagAi}, limit \in FeedLimits, offset \in {0, 1} :
         list_posts(hashtag, limit, offset)
    \/ \E hashtag \in {NoHashtag, TagAi}, limit \in FeedLimits, offset \in {0, 1} :
         list_posts_new(hashtag, limit, offset)
    \/ \E hashtag \in {NoHashtag, TagAi}, limit \in FeedLimits, offset \in {0, 1} :
         list_posts_hot(hashtag, limit, offset)
    \/ \E hashtag \in {NoHashtag, TagAi}, limit \in FeedLimits :
         search_posts(SearchRequest(VA, hashtag, limit))

SpecFeed == InitStore /\ [][NextFeed]_vars

-----------------------------------------------------------------------------
(* Requests that carry vectors *)

\* Vectors of the wrong length: too short, too long by one, and empty.
VLong == Pad(<<1>>) \o <<0>>
VEmpty == <<>>
WrongVectors == {VShort, VLong, VEmpty}

\* The two users' registrations, each also sent with a vector of the wrong length.
VectorRegRequests ==
    UNION {{[Roster[i] EXCEPT !.shibboleth_vector = v] :
                v \in {Roster[i].shibboleth_vector} \cup WrongVectors} :
            i \in DOMAIN Roster}

VectorWgRequests ==
    {[display_name |-> "n3", public_key |-> "k3", shibboleth_vector |-> v] :
        v \in {VB} \cup WrongVectors}

VectorPostRequests ==
    [content : {NoMentions}, vector : {VA} \cup WrongVectors, hashtags : {<<>>},
     parent_id : {None}, force : BOOLEAN]

NextVectors ==
    \/ \E reg \in VectorRegRequests : register_identity(reg)
    \/ \E req \in VectorWgRequests : wireguard_register(req)
    \/ approve_identity("k1")
    \/ \E post \in VectorPostRequests, caller \in {Caller("k1", "ipx"), Caller(None, "ip2")} :
         create_post(post, caller)
    \/ \E v \in {VA} \cup WrongVectors : search_posts(SearchRequest(v, NoHashtag, 1))
    \/ TimePasses

SpecVectors == InitStore /\ [][NextVectors]_vars

-----------------------------------------------------------------------------
(* Claims about the life of a post *)

IsPrefix(s, t) == Len(s) <= Len(t) /\ SubSeq(t, 1, Len(s)) = s

\* C11: over db.create_post and db.append_to_post called one at a time, every
\* stored post's appends list before a call is a prefix of its appends list after
\* the call (no entry is removed, reordered or modified), and a post stored by the
\* call starts with an empty appends list.
AppendsOnlyGrow ==
    \A i \in Indices(posts) :
        /\ i <= Len(posts')
        /\ posts'[i].id = posts[i].id
        /\ IsPrefix(posts[i].appends, posts'[i].appends)

NewPostsStartEmpty ==
    \A i \in Indices(posts') : i > Len(posts) => posts'[i].appends = <<>>

C11_AppendsAppendOnly == [][AppendsOnlyGrow /\ NewPostsStartEmpty]_vars

\* The author's second append, with different content, has just been stored
\* behind the first, next to a second post that has an append of its own.
C11_Witness ==
    /\ ret.op = "db.append_to_post"
    /\ ret.result = TRUE
    /\ Len(posts) = 2
    /\ \E i, j \in Indices(posts) :
        /\ i # j
        /\ posts[i].id = ret.args.post_id
        /\ Len(posts[i].appends) = 2
        /\ posts[i].appends[1] # posts[i].appends[2]
        /\ posts[i].appends[2] = ret.args.content
        /\ posts[j].appends # <<>>

\* C12: no call changes a stored post's id, author, author_key, timestamp (its
\* position in the table), content, vector, hashtags or parent_id, and none
\* removes a post; in the posts table a like changes nothing but the likes counter
\* of the post it names, an append nothing but the appends of the post it names,
\* and the reads (get with its replies, the new, hot and plain listings, search,
\* and the dedup scan of a post that is answered with a warning) change no table.
ImmutableFields ==
    {"id", "author", "author_key", "content", "vector", "hashtags", "parent_id"}

PostsKept ==
    \A i \in Indices(posts) :
        /\ i <= Len(posts')
        /\ \A f \in ImmutableFields : posts'[i][f] = posts[i][f]

\* The posts table after the step differs from the one before at most in `field`
\* of the post `post_id`.
OnlyChanges(field, post_id) ==
    /\ Len(posts') = Len(posts)
    /\ \A i \in Indices(posts) :
        /\ posts'[i] = [posts[i] EXCEPT ![field] = posts'[i][field]]
        /\ posts[i].id # post_id => posts'[i] = posts[i]

ReadOps == {"get_post", "list_posts", "list_posts_new", "list_posts_hot", "search_posts"}

TablesUnchanged == UNCHANGED <<identities, posts, likes, notifications>>

PostFrame ==
    /\ PostsKept
    /\ ret'.op = "like_post" => OnlyChanges("likes", ret'.req)
    /\ ret'.op = "append_to_post" => OnlyChanges("appends", ret'.req.post_id) /\ likes' = likes
    /\ ret'.op \in ReadOps => TablesUnchanged
    /\ (ret'.op = "create_post" /\ ret'.status = 200 /\ ret'.warning # Nothing)
        => TablesUnchanged

C12_PostsImmutable == [][PostFrame]_vars

\* The second user has just liked the first post, which carries an append of its
\* author, while a second post is stored.
C12_Witness ==
    /\ ret.op = "like_post"
    /\ ret.status = 200
    /\ ret.likes >= 1
    /\ Len(posts) = 2
    /\ posts[1].id = ret.req
    /\ posts[1].appends # <<>>
    /\ <<posts[1].id, "k2">> \in likes
    /\ posts[2].likes = 0

-----------------------------------------------------------------------------
(* Claims about the life of an identity *)

\* C13: once db.is_identity_approved(k) is true it stays true after every later
\* call; no call removes an identity or sets approved back, and approved is the
\* only field of a stored identity that any call changes.
IdentitiesKept ==
    \A i \in Indices(identities) :
        /\ i <= Len(identities')
        /\ identities'[i] = [identities[i] EXCEPT !.approved = identities'[i].approved]
        /\ identities[i].approved => identities'[i].approved

ApprovalKept ==
    \A k \in Keys :
        is_identity_approved(identities, k) => is_identity_approved(identities', k)

C13_ApprovalOneWay == [][IdentitiesKept /\ ApprovalKept]_vars

\* The first user, who could only post after being approved, has just been
\* approved again; the second user is still pending.
C13_Witness ==
    /\ ret.op = "approve_identity"
    /\ ret.req = "k1"
    /\ ret.status = 200
    /\ \E i \in Indices(posts) : posts[i].author_key = "k1"
    /\ is_identity_approved(identities, "k1")
    /\ Len(identities) = 2
    /\ ~is_identity_approved(identities, "k2")

\* C14: db.is_identity_approved(k) is true exactly when an identity with key k is
\* registered and db.approve_identity(k) has been called since it was registered:
\* it is false for every key at the start, a call makes it true only by being
\* approve_identity(k) for a registered k, every such call makes it true, and a
\* registration leaves it false for the key it stores.
ApprovedAreRegistered ==
    \A k \in Keys : is_identity_approved(identities, k) => k \in KeysOf(identities)

ApprovedByApprovalOnly ==
    \A k \in Keys :
        is_identity_approved(identities', k)
            <=> \/ is_identity_approved(identities, k)
                \/ /\ ret'.op = "db.approve_identity"
                   /\ ret'.args.public_key = k
                   /\ k \in KeysOf(identities)

IsApprovedAnswers ==
    ret'.op = "db.is_identity_approved"
        => /\ identities' = identities
           /\ ret'.result = is_identity_approved(identities, ret'.args.public_key)

C14_ApprovedIffApproveCalled ==
    []ApprovedAreRegistered /\ [][ApprovedByApprovalOnly /\ IsApprovedAnswers]_vars

\* The function has just answered False for a registered identity nobody has
\* approved, while the other identity is approved and a third key is unknown.
C14_Witness ==
    /\ ret.op = "db.is_identity_approved"
    /\ ret.result = FALSE
    /\ ret.args.public_key \in KeysOf(identities)
    /\ \E k \in KeysOf(identities) : is_identity_approved(identities, k)
    /\ \E k \in Keys : k \notin KeysOf(identities) /\ ~is_identity_approved(identities, k)

-----------------------------------------------------------------------------
(* Claims about searching *)

\* The listings of the rows `cands`, each once, in every order.
Rankings(cands) ==
    {r \in [1..Cardinality(cands) -> cands] :
        \A a, b \in DOMAIN r : a # b => r[a] # r[b]}

\* (post, similarity) pairs in non-increasing similarity.
NonIncreasing(results) ==
    \A a, b \in DOMAIN results :
        a < b => SimGE(results[a].similarity, results[b].similarity)

\* The pairs, for `vector`, of the rows listed in `ranking`.
PairsOf(ranking, vector) ==
    [k \in DOMAIN ranking |->
        [id |-> posts[ranking[k]].id,
         similarity |-> cosine_similarity(vector, posts[ranking[k]].vector)]]

\* Entries first + 1 .. last of a list, clipped to the list.
Clip(seq, first, last) ==
    IF first >= Len(seq) \/ last <= first THEN <<>>
    ELSE SubSeq(seq, first + 1, IF last > Len(seq) THEN Len(seq) ELSE last)

\* C15: for limit >= 0 and offset >= 0, db.search_posts(query, hashtag, limit,
\* offset) returns entries offset .. offset + limit - 1 of a listing, in
\* non-increasing similarity to the query, of all stored posts that pass the
\* hashtag filter when one is given: replies and top-level posts alike, posts
\* older than the dedup window included, and whatever their similarity; it
\* returns the empty list when no post passes.
SearchCandidates(hashtag) ==
    {i \in Indices(posts) : HashtagGiven(hashtag) => MatchesHashtag(posts[i], hashtag)}

SearchReturnsSlice ==
    (/\ ret.op = "db.search_posts"
     /\ ret.args.limit >= 0
     /\ ret.args.offset >= 0)
    => \E ranking \in Rankings(SearchCandidates(ret.args.hashtag)) :
        LET all == PairsOf(ranking, ret.args.query_vector)
        IN  /\ NonIncreasing(all)
            /\ ret.result = Clip(all, ret.args.offset,
                                 ret.args.offset + ret.args.limit)

DedupWindow == {i \in Indices(posts) : i > Len(posts) - RecentWindow}

SimilarCandidates(vector) ==
    {i \in DedupWindow :
        SimGE(cosine_similarity(vector, posts[i].vector), SIMILARITY_THRESHOLD)}

FindSimilarReturnsWindow ==
    ret.op = "db.find_similar_posts"
    => \E ranking \in Rankings(SimilarCandidates(ret.args.vector)) :
        LET all == PairsOf(ranking, ret.args.vector)
        IN  /\ NonIncreasing(all)
            /\ ret.result = Clip(all, 0, ret.args.limit)

DedupScansWindow ==
    \A vector \in {VA, VB, VC} :
        LET hit == find_similar_posts(posts, vector)
        IN  /\ hit # 0 <=> SimilarCandidates(vector) # {}
            /\ hit # 0 => /\ hit \in SimilarCandidates(vector)
                          /\ <<[id |-> posts[hit].id,
                                similarity |-> cosine_similarity(vector,
                                                                 posts[hit].vector)]>>
                                = db_find_similar_posts(posts, vector, 1)

C16_SimilarWithinWindow == FindSimilarReturnsWindow /\ DedupScansWindow

\* Three posts are stored and the oldest is identical to the vector asked about;
\* the call has returned the two newer posts, the nearer first although it was
\* scanned second, and not the oldest.
C16_Witness ==
    /\ ret.op = "db.find_similar_posts"
    /\ Len(posts) = 3
    /\ posts[1].vector = ret.args.vector
    /\ Len(ret.result) = 2
    /\ ret.result[1].id = posts[2].id
    /\ ret.result[2].id = posts[3].id
    /\ SimGT(ret.result[1].similarity, ret.result[2].similarity)

-----------------------------------------------------------------------------
(* Claims about listing *)

\* h is one of the post's hashtags, character for character.
HasHashtag(row, hashtag) == \E k \in DOMAIN row.hashtags : row.hashtags[k] = hashtag

\* C17: when a hashtag is given, db.list_posts, db.list_posts_hot and
\* db.search_posts (asked for the whole result: offset 0 and a limit no smaller
\* than the store) return a post if and only if the hashtag is, character for
\* character, one of the post's hashtags (and, for the two listings, the post is
\* top-level); when none is given no post is left out for its hashtags.
HashtagFilterExact ==
    (/\ ret.op \in {"db.list_posts", "db.list_posts_hot", "db.search_posts"}
     /\ ret.args.offset = 0
     /\ ret.args.limit >= Len(posts))
    => {ret.result[k].id : k \in DOMAIN ret.result}
        = {posts[i].id : i \in
            {j \in Indices(posts) :
                /\ ret.op # "db.search_posts" => posts[j].parent_id = None
                /\ HashtagGiven(ret.args.hashtag)
                    => HasHashtag(posts[j], ret.args.hashtag)}}

C17_HashtagExact == HashtagFilterExact

\* C18: db.list_posts(hashtag, limit, offset) returns top-level posts only, never
\* a reply: the stored top-level posts that pass the hashtag filter, newest
\* first, cut to the `limit` entries after the first `offset` (SQLite's LIMIT
\* and OFFSET: a negative limit keeps all, a negative offset skips none).
\* Each entry's reply_count is the number of stored posts whose parent_id is
\* that post's id, which is the length of db.get_replies for it.
TopLevelCandidates(hashtag) ==
    {i \in Indices(posts) :
        /\ posts[i].parent_id = None
        /\ HashtagGiven(hashtag) => MatchesHashtag(posts[i], hashtag)}

NewestFirstRanking(ranking) == \A a, b \in DOMAIN ranking : a < b => ranking[a] > ranking[b]

ListReturnsTopLevel ==
    ret.op = "db.list_posts"
    => /\ \E ranking \in Rankings(TopLevelCandidates(ret.args.hashtag)) :
            LET skip == IF ret.args.offset < 0 THEN 0 ELSE ret.args.offset
                last == IF ret.args.limit < 0 THEN Len(posts) ELSE skip + ret.args.limit
            IN  /\ NewestFirstRanking(ranking)
                /\ [k \in DOMAIN ret.result |-> ret.result[k].id]
                    = Clip([k \in DOMAIN ranking |-> posts[ranking[k]].id], skip, last)
       /\ \A k \in DOMAIN ret.result :
            /\ get_post(posts, ret.result[k].id)[1].parent_id = None
            /\ ret.result[k].reply_count
                = Cardinality({j \in Indices(posts) :
                                  posts[j].parent_id = ret.result[k].id})
            /\ ret.result[k].reply_count = Len(get_replies(posts, ret.result[k].id))

C18_ListTopLevel == ListReturnsTopLevel

\* Two top-level posts with a reply to the older one stored between them have
\* been listed: the newer post first, then the older with a reply_count of 1, and
\* not the reply.
C18_Witness ==
    /\ ret.op = "db.list_posts"
    /\ ret.args.hashtag = NoHashtag
    /\ Len(posts) = 3
    /\ posts[2].parent_id = posts[1].id
    /\ ret.result = <<[id |-> posts[3].id, reply_count |-> 0],
                      [id |-> posts[1].id, reply_count |-> 1]>>

-----------------------------------------------------------------------------
(* Claims about the feed and search endpoints *)

\* C19: whatever limit is asked for (above the cap, zero or negative) and
\* whatever is stored, a response of GET /posts, GET /posts/new, GET /posts/hot
\* or POST /search carries at most LimitCap entries.
PageSizeCapped ==
    /\ ret.op \in {"list_posts", "list_posts_new", "list_posts_hot"}
        => Len(ret.posts) <= LimitCap
    /\ (ret.op = "search_posts" /\ ret.status = 200) => Len(ret.results) <= LimitCap

C19_PageSizeCapped == PageSizeCapped

-----------------------------------------------------------------------------
(* Claims about vector dimensions *)

\* C20: every stored shibboleth vector and every stored post vector has exactly
\* VECTOR_DIM components; a registration (either endpoint) or search request, or a
\* post-creation request of a caller the identity dependency admits, whose vector
\* has any other length is answered 400 and leaves every table as it was.
StoredVectorsHaveDimension ==
    /\ \A i \in Indices(identities) : Len(identities[i].shibboleth_vector) = VECTOR_DIM
    /\ \A i \in Indices(posts) : Len(posts[i].vector) = VECTOR_DIM

CarriedVector(response) ==
    CASE response.op \in {"register_identity", "wireguard_register"}
            -> response.req.shibboleth_vector
      [] response.op = "create_post" -> response.req.vector
      [] response.op = "search_posts" -> response.req.query_vector

WrongDimensionRejected ==
    (/\ ret'.op \in {"register_identity", "wireguard_register", "create_post",
                     "search_posts"}
     /\ Len(CarriedVector(ret')) # VECTOR_DIM)
    => /\ ret'.status = 400
       /\ TablesUnchanged

C20_VectorDimension == []StoredVectorsHaveDimension /\ [][WrongDimensionRejected]_vars

\* An approved author with a post stored has just been answered 400 for a post
\* whose vector is one component too long.
C20_Witness ==
    /\ ret.op = "create_post"
    /\ ret.status = 400
    /\ ret.req.vector = VLong
    /\ Len(posts) >= 1
    /\ Len(identities) = 2

-----------------------------------------------------------------------------
(* Notifications *)

\* The rows a step added to the notifications table, of one type.
AddedNotifications(type) ==
    SelectSeq(SubSeq(notifications', Len(notifications) + 1, Len(notifications')),
              LAMBDA n : n.type = type)

\* A step that stored a post: the reply notifications it added are exactly the
\* one for the author of the parent, when the parent exists and is somebody
\* else's, and none otherwise.
ReplyNotifiesParentAuthor ==
    Len(posts') = Len(posts) + 1 =>
        LET new == posts'[Len(posts')]
            parent == get_post(posts, new.parent_id)
        IN  AddedNotifications("reply") =
                IF parent # Nothing /\ parent[1].author_key # new.author_key
                THEN <<[user_key |-> parent[1].author_key, type |-> "reply",
                        post_id |-> new.id, from_user |-> new.author,
                        read |-> FALSE]>>
                ELSE <<>>

\* A submission answered with a similarity warning adds no notification.
WarningNotifiesNobody ==
    (ret'.op = "create_post" /\ ret'.status = 200 /\ ret'.id = "")
        => notifications' = notifications

\* C21: a stored reply to an existing post of another identity adds exactly one
\* unread "reply" notification addressed to the parent's author; a reply to
\* one's own post, a reply to a missing parent, and a submission answered with
\* a similarity warning add no reply notification.
C21_ReplyNotification ==
    [][ReplyNotifiesParentAuthor /\ WarningNotifiesNobody]_vars

\* The second user's reply to the first user's post is stored and the first
\* user has the unread notification.
C21_Witness ==
    /\ ret.op = "create_post"
    /\ ret.status = 200
    /\ ret.req.parent_id \in PostIdsOf(posts)
    /\ \E i \in DOMAIN notifications :
          /\ notifications[i].type = "reply"
          /\ notifications[i].post_id = ret.id
          /\ notifications[i].user_key = "k1"
          /\ ~notifications[i].read

\* The step is an admitted request of the identity k, answered by the handler op.
AnsweredFor(op, k) ==
    /\ ret'.op = op
    /\ request_counts'[k] = request_counts[k] + 1

\* What an admitted like does to the notifications: 404 for a post that is not
\* stored, with the posts, the ledger and the notifications untouched; otherwise
\* one unread "like" row for the author when the liker is somebody else, and no
\* row for a like of one's own post.
LikeNotifiesAuthor ==
    \A k \in Keys :
        AnsweredFor("like_post", k) =>
            LET post == get_post(posts, ret'.req)
                me == get_identity_by_key(identities, k)[1]
            IN  IF post = Nothing
                THEN /\ ret'.status = 404
                     /\ UNCHANGED <<posts, likes, notifications>>
                ELSE /\ ret'.status = 200
                     /\ notifications' =
                            IF post[1].author_key # k
                            THEN Append(notifications,
                                        [user_key |-> post[1].author_key,
                                         type |-> "like", post_id |-> ret'.req,
                                         from_user |-> me.display_name,
                                         read |-> FALSE])
                            ELSE notifications

\* C22: a like through the endpoint on a stored post of another identity adds a
\* "like" notification addressed to the post's author; a like of one's own post
\* adds none; a like of a post that does not exist is answered with 404 and
\* changes neither the ledger, nor a counter, nor a notification.
C22_LikeNotification == [][LikeNotifiesAuthor]_vars

\* The second user liked the first user's post, and the first user was notified.
C22_Witness ==
    /\ ret.op = "like_post"
    /\ ret.status = 200
    /\ \E i \in DOMAIN notifications :
          /\ notifications[i] = [user_key |-> "k1", type |-> "like",
                                 post_id |-> ret.req, from_user |-> "n2",
                                 read |-> FALSE]
          /\ get_post(posts, ret.req)[1].author_key = "k1"

-----------------------------------------------------------------------------
(* The notifications table, called directly *)

NotificationTypes == {"reply", "like"}

CallCreateNotification ==
    \E user_key \in {"k1", "k2"}, type \in NotificationTypes :
        /\ Len(notifications) < MaxNotifications
        /\ notifications' = create_notification(notifications, user_key, type,
                                                PostIdPool[1], "n3")
        /\ ret' = [op |-> "db.create_notification",
                   args |-> [user_key |-> user_key, type |-> type],
                   result |-> Len(notifications) + 1]
        /\ UNCHANGED <<identities, posts, likes, request_counts, conn, db_lock>>

CallGetNotifications ==
    \E user_key \in {"k1", "k2"} :
        Read("db.get_notifications", [user_key |-> user_key],
             get_notifications(notifications, user_key))

CallMarkNotificationsRead ==
    \E user_key \in {"k1", "k2"} :
        /\ notifications' = db_mark_notifications_read(notifications, user_key)
        /\ ret' = [op |-> "db.mark_notifications_read",
                   args |-> [user_key |-> user_key], result |-> None]
        /\ UNCHANGED <<identities, posts, likes, request_counts, conn, db_lock>>

NextNotifications ==
    \/ CallCreateNotification
    \/ CallGetNotifications
    \/ CallMarkNotificationsRead

SpecNotifications == InitStore /\ [][NextNotifications]_vars

\* mark_notifications_read(u): every row of u is read afterwards, every other
\* row is as it was, and the unread list of u is empty.
MarkReadsOwnRows ==
    ret'.op = "db.mark_notifications_read" =>
        /\ DOMAIN notifications' = DOMAIN notifications
        /\ \A i \in DOMAIN notifications :
              notifications'[i] =
                  IF notifications[i].user_key = ret'.args.user_key
                  THEN [notifications[i] EXCEPT !.read = TRUE]
                  ELSE notifications[i]
        /\ get_notifications(notifications', ret'.args.user_key) = <<>>

\* An empty unread list stays empty unless a notification for that user is created.
UnreadOnlyByCreation ==
    \A u \in Keys :
        (get_notifications(notifications, u) = <<>>
         /\ get_notifications(notifications', u) # <<>>)
            => (ret'.op = "db.create_notification" /\ ret'.args.user_key = u)

\* create_notification appends one unread row.
CreatedUnread ==
    ret'.op = "db.create_notification" =>
        /\ Len(notifications') = Len(notifications) + 1
        /\ SubSeq(notifications', 1, Len(notifications)) = notifications
        /\ ~notifications'[Len(notifications')].read
        /\ notifications'[Len(notifications')].user_key = ret'.args.user_key

\* No row is deleted, rewritten, or turned back to unread.
NotificationsKept ==
    /\ Len(notifications') >= Len(notifications)
    /\ \A i \in DOMAIN notifications :
          /\ [notifications'[i] EXCEPT !.read = FALSE]
                = [notifications[i] EXCEPT !.read = FALSE]
          /\ notifications[i].read => notifications'[i].read

\* What get_notifications answers: the unread rows of the user.
UnreadListed ==
    ret.op = "db.get_notifications" =>
        /\ \A i \in DOMAIN ret.result :
              ret.result[i].user_key = ret.args.user_key /\ ~ret.result[i].read
        /\ Len(ret.result) = Cardinality({i \in DOMAIN notifications :
                                             /\ notifications[i].user_key = ret.args.user_key
                                             /\ ~notifications[i].read})

\* C23: mark_notifications_read(u) marks every notification of u as read and
\* leaves every other user's notifications unchanged; afterwards the unread
\* list of u is empty until a new notification for u is created; every
\* notification is created unread; no operation deletes a notification or turns
\* a read notification back to unread.
C23_MarkRead ==
    /\ []UnreadListed
    /\ [][MarkReadsOwnRows /\ UnreadOnlyByCreation /\ CreatedUnread
          /\ NotificationsKept]_vars

\* The first user's notification was marked read while the second user's is
\* still unread.
C23_Witness ==
    /\ ret.op = "db.mark_notifications_read"
    /\ ret.args.user_key = "k1"
    /\ \E i \in DOMAIN notifications :
          notifications[i].user_key = "k1" /\ notifications[i].read
    /\ \E i \in DOMAIN notifications :
          notifications[i].user_key = "k2" /\ ~notifications[i].read

\* The same, for the endpoints: no request deletes a notification or turns a
\* read one back to unread.
NotificationsKeptByRequests == [][NotificationsKept]_vars

-----------------------------------------------------------------------------
(* What a refused registration tells the caller *)

UniqueFields == {"display_name", "public_key", "wireguard_ip"}

\* The unique columns on which the registration collides with a stored row
\* (database.py 126-141: the INSERT raises IntegrityError for any of them).
CollidedFields(ids, reg) ==
    {f \in UniqueFields : \E i \in Indices(ids) : ids[i][f] = reg[f]}

\* The fields a detail text of main.py mentions.
FieldsNamed(detail) ==
    CASE detail = "Display name, public key, or IP already registered" -> UniqueFields
      [] detail = "Display name or public key already registered"
            -> {"display_name", "public_key"}
      [] OTHER -> {}

\* A registration refused by the INSERT.
RefusedAsDuplicate ==
    /\ ret.op = "register_identity"
    /\ ret.status = 409
    /\ CollidedFields(identities, ret.req) # {}
    /\ find_similar_shibboleths(identities, ret.req.shibboleth_vector) = 0

\* C28: a registration that fails because its display_name, public_key or
\* network address already exists tells the caller which of the three fields
\* collided: the answer mentions the fields that collided and no other.
C28_CollisionNamed ==
    RefusedAsDuplicate => FieldsNamed(ret.detail) = CollidedFields(identities, ret.req)

-----------------------------------------------------------------------------
(* cosine_similarity on any two vectors *)

\* The zero vector, and vectors of other lengths.
VZero == Pad(<<0>>)
VNeg == Pad(<<-1, 0>>)
VShortZero == <<0, 0>>

CosineInputs == {VA, VB, VC, VD, VE, VNeg, VZero, VShort, VShortZero, VLong, VEmpty}

CallCosineSimilarity ==
    \E vec1 \in CosineInputs, vec2 \in CosineInputs :
        Read("cosine_similarity", [vec1 |-> vec1, vec2 |-> vec2],
             cosine_similarity(vec1, vec2))

NextCosine == CallCosineSimilarity

SpecCosine == InitStore /\ [][NextCosine]_vars

\* The call raised.
Raised(result) == "raised" \in DOMAIN result

\* The nominal range [-1, 1].
InUnitRange(s) == s.d2 > 0 /\ s.n2 <= s.d2

\* C30: cosine_similarity fails with an error when the two vectors differ in
\* length, and fails with an error (or returns a defined sentinel) when either
\* vector has zero norm; it never returns a not-a-number similarity: what it
\* returns is a number in [-1, 1].
C30_CosineDefined ==
    ret.op = "cosine_similarity" =>
        IF Len(ret.args.vec1) # Len(ret.args.vec2)
        THEN Raised(ret.result)
        ELSE Raised(ret.result) \/ InUnitRange(ret.result)

\* The part of it the code keeps: vectors of different lengths raise, and two
\* vectors of the same length with non-zero norms give a number in [-1, 1].
CosineDefinedOffZero ==
    ret.op = "cosine_similarity" =>
        IF Len(ret.args.vec1) # Len(ret.args.vec2)
        THEN Raised(ret.result)
        ELSE \/ NormSq(ret.args.vec1) = 0
             \/ NormSq(ret.args.vec2) = 0
             \/ (~Raised(ret.result) /\ InUnitRange(ret.result))

-----------------------------------------------------------------------------
(* Scanning a table that holds a corrupt vector *)

\* What is stored: two posts with good vectors, and a post whose blob decodes
\* to a vector of the wrong length (db.create_post stores whatever it is given).
CorruptStock ==
    {[vector |-> VA, hashtags |-> <<>>, reply |-> FALSE],
     [vector |-> VB, hashtags |-> <<TagAi>>, reply |-> FALSE],
     [vector |-> VShort, hashtags |-> <<>>, reply |-> FALSE]}

NextCorrupt ==
    \/ StorePost(CorruptStock)
    \/ CallSearchPosts
    \/ CallFindSimilarPosts

SpecCorrupt == InitStore /\ [][NextCorrupt]_vars

\* The rows of a scan without the corrupt ones.
IntactRows(ps, rows, vector) ==
    SelectSeq(rows, LAMBDA i : Len(deserialize_vector(ps[i].vector)) = Len(vector))

SearchSkipsCorrupt ==
    ret.op = "db.search_posts" =>
        /\ ~Raised(ret)
        /\ ret.result =
             PySlice(SortScored(Scored(posts,
                         IntactRows(posts,
                                    PostsWhere(posts, TimestampDesc(posts),
                                               ret.args.hashtag, FALSE),
                                    ret.args.query_vector),
                         ret.args.query_vector)),
                     ret.args.offset, ret.args.offset + ret.args.limit)

FindSimilarSkipsCorrupt ==
    ret.op = "db.find_similar_posts" =>
        /\ ~Raised(ret)
        /\ ret.result =
             PySlice(SortScored(SelectSeq(
                         Scored(posts, IntactRows(posts, ScanWindow(posts),
                                                  ret.args.vector),
                                ret.args.vector),
                         LAMBDA r : AboveThreshold(r.similarity))),
                     0, ret.args.limit)

\* C29: when a stored post's vector blob is corrupt, search_posts and
\* find_similar_posts skip that record and still score and return the
\* remaining posts; they do not abort the scan with an error.
C29_CorruptSkipped == SearchSkipsCorrupt /\ FindSimilarSkipsCorrupt

\* The part of it the code keeps: a scan that reads no corrupt row answers.
IntactScansAnswer ==
    /\ (ret.op = "db.search_posts"
        /\ ~search_posts_raises(posts, ret.args.query_vector, ret.args.hashtag))
           => SearchSkipsCorrupt
    /\ (ret.op = "db.find_similar_posts"
        /\ ~find_similar_posts_raises(posts, ret.args.vector))
           => FindSimilarSkipsCorrupt

-----------------------------------------------------------------------------
(* The hot listing *)

\* What is stored to be ranked: an untagged post, a tagged post, and a reply
\* to the first post.
HotStock ==
    {[vector |-> VA, hashtags |-> <<>>, reply |-> FALSE],
     [vector |-> VA, hashtags |-> <<TagAi>>, reply |-> FALSE],
     [vector |-> VA, hashtags |-> <<>>, reply |-> TRUE]}

\* db.like_post by the first user, on a stored post.
CallLikeStored ==
    \E post_id \in PostIdsOf(posts) :
        /\ posts' = db_like_post(posts, likes, post_id, "k1")
        /\ likes' = db_like_post_ledger(likes, post_id, "k1")
        /\ ret' = [op |-> "db.like_post",
                   args |-> [post_id |-> post_id, user_key |-> "k1"],
                   result |-> db_like_post_result(posts, likes, post_id, "k1")]
        /\ UNCHANGED <<identities, notifications, request_counts, conn, db_lock>>

\* The whole listing, and its second entry alone.
HotPages == {[limit |-> MaxStored, offset |-> 0], [limit |-> 1, offset |-> 1]}

CallListPostsHotAt ==
    \E hashtag \in {NoHashtag, TagAi}, page \in HotPages, hours \in Clock(posts) :
      LET limit == page.limit
          offset == page.offset
      IN
        Read("db.list_posts_hot",
             [hashtag |-> hashtag, limit |-> limit, offset |-> offset,
              hours |-> hours],
             db_list_posts_hot_at(posts, hashtag, limit, offset, hours))

NextHot ==
    \/ StorePost(HotStock)
    \/ CallLikeStored
    \/ CallListPostsHotAt

SpecHot == InitStore /\ [][NextHot]_vars

\* The row of a listed post.
RowOf(id) == CHOOSE i \in Indices(posts) : posts[i].id = id

\* likes + 2 x direct replies of row i.
LikesAndReplies(i) ==
    posts[i].likes + 2 * Cardinality({j \in Indices(posts) : posts[j].parent_id = posts[i].id})

\* s is (likes + 2 x replies) / (h + 2)^1.5 for row i at the age the clock
\* gives it, h in hours floored at 0.1: s >= 0 and
\* s^2 (h + 2)^3 = (likes + 2 x replies)^2, with h = t / 10.
IsHotnessOf(s, i, hours) ==
    LET t == IF hours[i] < 1 THEN 1 ELSE hours[i]
        e == LikesAndReplies(i)
    IN  /\ s.sign >= 0
        /\ s.d2 > 0
        /\ s.n2 * (t + 20) * (t + 20) * (t + 20) = 1000 * e * e * s.d2

NonIncreasingHotness(scored) ==
    \A a, b \in DOMAIN scored : a < b => SimGE(scored[a].hotness, scored[b].hotness)

HotReturnsSlice ==
    ret.op = "db.list_posts_hot" =>
        /\ \E ranking \in Rankings(TopLevelCandidates(ret.args.hashtag)) :
              LET all == [k \in DOMAIN ranking |->
                             [id |-> posts[ranking[k]].id,
                              hotness |-> Hotness(LikesAndReplies(ranking[k]),
                                                  ret.args.hours[ranking[k]])]]
              IN  /\ NonIncreasingHotness(all)
                  /\ [k \in DOMAIN ret.result |->
                         [id |-> ret.result[k].id, hotness |-> ret.result[k].hotness]]
                        = Clip(all, ret.args.offset, ret.args.offset + ret.args.limit)
        /\ \A k \in DOMAIN ret.result :
              LET i == RowOf(ret.result[k].id)
              IN  /\ posts[i].parent_id = None
                  /\ IsHotnessOf(ret.result[k].hotness, i, ret.args.hours)
                  /\ LikesAndReplies(i) = 0 => ret.result[k].hotness.n2 = 0
        /\ \A a, b \in DOMAIN ret.result :
              LET i == RowOf(ret.result[a].id)
                  j == RowOf(ret.result[b].id)
              IN  (a < b /\ ret.args.hours[i] = ret.args.hours[j])
                      => LikesAndReplies(i) >= LikesAndReplies(j)

\* C27: list_posts_hot returns only top-level posts (passing the hashtag filter
\* when one is given), in non-increasing hotness
\* (likes + 2 x direct replies) / (h + 2)^1.5, h the hours since posting floored
\* at 0.1, with offset and limit applied after sorting; among listed posts of
\* equal age one with larger likes + 2 x replies is never after one with
\* smaller, and a post with no likes and no replies has hotness 0.
C27_HotOrder == HotReturnsSlice

\* Two posts of the same age were listed, the newer one first because it has the
\* larger engagement, and a post without likes or replies is listed with
\* hotness 0.
C27_Witness ==
    /\ ret.op = "db.list_posts_hot"
    /\ Len(ret.result) >= 2
    /\ RowOf(ret.result[1].id) > RowOf(ret.result[2].id)
    /\ ret.args.hours[RowOf(ret.result[1].id)] = ret.args.hours[RowOf(ret.result[2].id)]
    /\ LikesAndReplies(RowOf(ret.result[1].id)) > LikesAndReplies(RowOf(ret.result[2].id))
    /\ \E k \in DOMAIN ret.result : ret.result[k].hotness.n2 = 0

\* An older post with more engagement is listed after a newer one with less:
\* the age decides.
HotAgeDecides ==
    /\ ret.op = "db.list_posts_hot"
    /\ Len(ret.result) >= 2
    /\ RowOf(ret.result[1].id) > RowOf(ret.result[2].id)
    /\ LikesAndReplies(RowOf(ret.result[1].id)) < LikesAndReplies(RowOf(ret.result[2].id))

-----------------------------------------------------------------------------
(* apply_algorithm (database.py) *)

\* Exact fractions n / d, d > 0, in lowest terms.
Rat(n, d) ==
    LET g == GCD(IF n < 0 THEN -n ELSE n, d)
    IN  [n |-> n \div g, d |-> d \div g]

RatAdd(x, y) == Rat(x.n * y.d + y.n * x.d, x.d * y.d)
RatMul(x, y) == Rat(x.n * y.n, x.d * y.d)
RatGT(x, y) == x.n * y.d > y.n * x.d

\* weights.get(key, default).  Weights are in tenths: 10 stands for 1.0.
DefaultSemantic == 10
DefaultLikes == 3
DefaultRecency == 1
DefaultHalflife == 24

WeightOf(weights, key, default) ==
    IF key \in DOMAIN weights THEN weights[key] ELSE default

\* (a slip: the guard against a maximum of 0 is missing)
MaxLikesUnguarded(results) ==
    CHOOSE m \in {results[k].post.likes : k \in DOMAIN results} :
        \A k \in DOMAIN results : results[k].post.likes <= m

\* max_likes = max(post['likes'] for post, _ in results); 1 when that is 0.
MaxLikes(results) ==
    LET m == CHOOSE m \in {results[k].post.likes : k \in DOMAIN results} :
                 \A k \in DOMAIN results : results[k].post.likes <= m
    IN  IF m = 0 THEN 1 ELSE m

\* normalized_likes = post['likes'] / max_likes
NormalizedLikes(results, k) == Rat(results[k].post.likes, MaxLikes(results))

RECURSIVE Pow2(_)
Pow2(k) == IF k = 0 THEN 1 ELSE 2 * Pow2(k - 1)

\* recency_factor = 0.5 ** (hours_since_post / halflife_hours) if
\* halflife_hours > 0 else 1.0, for ages that are whole numbers of half-lives.
RecencyFactor(hours, halflife_hours) ==
    IF halflife_hours > 0 THEN Rat(1, Pow2(hours \div halflife_hours)) ELSE Rat(1, 1)

\* (a slip: the likes term is subtracted)
ScoreLikesSubtracted(results, k, weights) ==
    LET w_semantic == WeightOf(weights, "semantic_similarity", DefaultSemantic)
        w_likes == WeightOf(weights, "likes", DefaultLikes)
        w_recency == WeightOf(weights, "recency_decay", DefaultRecency)
        halflife_hours == WeightOf(weights, "recency_halflife_hours", DefaultHalflife)
    IN  RatAdd(RatAdd(RatMul(results[k].similarity, Rat(w_semantic, 1)),
                      RatMul(NormalizedLikes(results, k), Rat(-w_likes, 1))),
               RatMul(RecencyFactor(results[k].post.hours, halflife_hours),
                      Rat(w_recency, 1)))

\* score = similarity * w_semantic + normalized_likes * w_likes
\*         + recency_factor * w_recency
Score(results, k, weights) ==
    LET w_semantic == WeightOf(weights, "semantic_similarity", DefaultSemantic)
        w_likes == WeightOf(weights, "likes", DefaultLikes)
        w_recency == WeightOf(weights, "recency_decay", DefaultRecency)
        halflife_hours == WeightOf(weights, "recency_halflife_hours", DefaultHalflife)
    IN  RatAdd(RatAdd(RatMul(results[k].similarity, Rat(w_semantic, 1)),
                      RatMul(NormalizedLikes(results, k), Rat(w_likes, 1))),
               RatMul(RecencyFactor(results[k].post.hours, halflife_hours),
                      Rat(w_recency, 1)))

\* (a slip: an entry is placed before the entries of equal score)
InsertRankedBeforeTies(sorted, x) ==
    LET ahead == SelectSeq(sorted, LAMBDA y : RatGT(y.score, x.score))
        behind == SelectSeq(sorted, LAMBDA y : ~RatGT(y.score, x.score))
    IN  ahead \o <<x>> \o behind

\* scored_results.sort(key=lambda x: x[1], reverse=True): a stable sort.
InsertRanked(sorted, x) ==
    LET ahead == SelectSeq(sorted, LAMBDA y : ~RatGT(x.score, y.score))
        behind == SelectSeq(sorted, LAMBDA y : RatGT(x.score, y.score))
    IN  ahead \o <<x>> \o behind

RECURSIVE SortRanked(_)
SortRanked(scored) ==
    IF scored = <<>> THEN <<>>
    ELSE InsertRanked(SortRanked(SubSeq(scored, 1, Len(scored) - 1)),
                      scored[Len(scored)])

\* The division post['likes'] / max_likes raises when max_likes is 0.
apply_algorithm_raises(results) == results # <<>> /\ MaxLikes(results) = 0

\* db.apply_algorithm(results, weights): the (post, final score) pairs.
apply_algorithm(results, weights) ==
    IF results = <<>> THEN results
    ELSE SortRanked([k \in DOMAIN results |->
                        [post |-> results[k].post,
                         score |-> Score(results, k, weights)]])

\* The candidates handed to apply_algorithm: posts with their likes and their
\* age in hours, and the similarity db.search_posts gave them (1, or 17/20).
MaxCandidates == 3

Candidates ==
    {[likes |-> 0, hours |-> 0, similarity |-> Rat(1, 1)],
     [likes |-> 2, hours |-> 0, similarity |-> Rat(1, 1)],
     [likes |-> 0, hours |-> 24, similarity |-> Rat(1, 1)],
     [likes |-> 0, hours |-> 0, similarity |-> Rat(17, 20)],
     [likes |-> 1, hours |-> 24, similarity |-> Rat(17, 20)],
     [likes |-> 2, hours |-> 24, similarity |-> Rat(17, 20)]}

CandidateLists ==
    UNION {{[k \in 1..n |->
               [post |-> [id |-> PostIdPool[k], likes |-> c[k].likes,
                          hours |-> c[k].hours],
                similarity |-> c[k].similarity]] : c \in [1..n -> Candidates]}
           : n \in 0..MaxCandidates}

\* A weights dict: each key is absent or has one of a few values.
WeightChoice(key, values) == {<<>>} \cup {key :> v : v \in values}

LikesWeights == {-10, 0, 10}

AlgorithmWeights ==
    {a @@ b @@ c @@ d :
        a \in WeightChoice("semantic_similarity", {0}),
        b \in WeightChoice("likes", LikesWeights),
        c \in WeightChoice("recency_decay", {10}),
        d \in WeightChoice("recency_halflife_hours", {0})}

\* A call that raised, with the exception.
Raises(op, args, exception) ==
    /\ ret' = [op |-> op, args |-> args, raised |-> exception]
    /\ UNCHANGED <<identities, posts, likes, notifications, request_counts, conn, db_lock>>

\* The store is empty and a call of apply_algorithm is about to be made.
InitAlgorithm ==
    /\ identities = <<>>
    /\ posts = <<>>
    /\ likes = {}
    /\ notifications = <<>>
    /\ request_counts = [k \in Keys |-> 0]
    /\ conn = <<>>
    /\ db_lock = {}
    /\ ret \in {[op |-> "call", args |-> [results |-> results, weights |-> weights]] :
                   results \in CandidateLists, weights \in AlgorithmWeights}

CallApplyAlgorithm ==
    /\ ret.op = "call"
    /\ IF apply_algorithm_raises(ret.args.results)
       THEN Raises("db.apply_algorithm", ret.args, "ZeroDivisionError")
       ELSE Read("db.apply_algorithm", ret.args,
                 apply_algorithm(ret.args.results, ret.args.weights))

NextAlgorithm == CallApplyAlgorithm

SpecAlgorithm == InitAlgorithm /\ [][NextAlgorithm]_vars

\* The place of the post `id` in a list of (post, ...) pairs.
PlaceOf(list, id) == CHOOSE k \in DOMAIN list : list[k].post.id = id

\* The likes weight in effect.
LikesWeightOf(weights) == WeightOf(weights, "likes", DefaultLikes)

\* The same weights with another likes weight.
WithLikesWeight(weights, w) == [k \in DOMAIN weights \cup {"likes"} |->
                                   IF k = "likes" THEN w ELSE weights[k]]

\* For candidates a, b of equal similarity and equal age, a with more likes
\* than b: if a is listed before b under these weights, it is listed before b
\* under every larger likes weight as well.
MoreLikesNeverLater ==
    (ret.op = "db.apply_algorithm" /\ ~Raised(ret)) =>
        \A a, b \in DOMAIN ret.args.results :
            LET ca == ret.args.results[a]
                cb == ret.args.results[b]
            IN  (/\ ca.similarity = cb.similarity
                 /\ ca.post.hours = cb.post.hours
                 /\ ca.post.likes > cb.post.likes
                 /\ PlaceOf(ret.result, ca.post.id) < PlaceOf(ret.result, cb.post.id))
                => \A w \in LikesWeights \cup {DefaultLikes, 20} :
                      w > LikesWeightOf(ret.args.weights) =>
                          LET heavier == apply_algorithm(ret.args.results,
                                             WithLikesWeight(ret.args.weights, w))
                          IN  PlaceOf(heavier, ca.post.id)
                                  < PlaceOf(heavier, cb.post.id)

\* C24: for two candidates with equal similarity and equal recency of which one
\* has strictly more likes, increasing the likes weight while the other weights
\* are held fixed never moves the candidate with more likes to a later position
\* relative to the other.
C24_LikesWeightMonotone == MoreLikesNeverLater

\* Under a likes weight of 0 the candidate with more likes came first (it was
\* first in the input); under a negative likes weight it comes second.
C24_Witness ==
    /\ ret.op = "db.apply_algorithm"
    /\ ~Raised(ret)
    /\ LikesWeightOf(ret.args.weights) = 0
    /\ \E a, b \in DOMAIN ret.args.results :
          LET ca == ret.args.results[a]
              cb == ret.args.results[b]
              lighter == apply_algorithm(ret.args.results,
                                         WithLikesWeight(ret.args.weights, -10))
          IN  /\ ca.similarity = cb.similarity
              /\ ca.post.hours = cb.post.hours
              /\ ca.post.likes > cb.post.likes
              /\ PlaceOf(ret.result, ca.post.id) < PlaceOf(ret.result, cb.post.id)
              /\ PlaceOf(lighter, ca.post.id) > PlaceOf(lighter, cb.post.id)

\* The largest likes value among the candidates.
LargestLikes(results) ==
    CHOOSE m \in {results[k].post.likes : k \in DOMAIN results} :
        \A k \in DOMAIN results : results[k].post.likes <= m

\* likes / maximum likes of the set, or 0 when no candidate has a like.
LikesShare(results, k) ==
    IF LargestLikes(results) = 0 THEN Rat(0, 1)
    ELSE Rat(results[k].post.likes, LargestLikes(results))

\* similarity x w_semantic + likes share x w_likes + recency x w_recency, the
\* recency being 1 / 2^(age / half-life), or 1 when the half-life is not positive.
FinalScore(results, k, weights) ==
    LET halflife == WeightOf(weights, "recency_halflife_hours", DefaultHalflife)
        recency == IF halflife > 0 THEN Rat(1, Pow2(results[k].post.hours \div halflife))
                   ELSE Rat(1, 1)
        times(x, w) == Rat(x.n * w, x.d)
    IN  RatAdd(times(results[k].similarity,
                     WeightOf(weights, "semantic_similarity", DefaultSemantic)),
               RatAdd(times(LikesShare(results, k),
                            WeightOf(weights, "likes", DefaultLikes)),
                      times(recency, WeightOf(weights, "recency_decay", DefaultRecency))))

\* Every returned pair is a candidate with its final score.
ScoresAreFinalScores ==
    \A k \in DOMAIN ret.result :
        ret.result[k].score
            = FinalScore(ret.args.results,
                         PlaceOf(ret.args.results, ret.result[k].post.id),
                         ret.args.weights)

\* The returned posts are the candidates: none added, dropped or duplicated.
IsPermutationOfInput ==
    /\ Len(ret.result) = Len(ret.args.results)
    /\ \A k \in DOMAIN ret.args.results :
          Cardinality({j \in DOMAIN ret.result :
                          ret.result[j].post = ret.args.results[k].post}) = 1

RankedAndStable ==
    \A a, b \in DOMAIN ret.result :
        a < b =>
            /\ ~RatGT(ret.result[b].score, ret.result[a].score)
            /\ ret.result[a].score = ret.result[b].score
                  => PlaceOf(ret.args.results, ret.result[a].post.id)
                        < PlaceOf(ret.args.results, ret.result[b].post.id)

\* C25: apply_algorithm returns a permutation of its input candidates (none
\* added, dropped or duplicated) in non-increasing final score; candidates with
\* equal final scores keep their relative input order; for an empty input it
\* returns an empty list.
C25_StablePermutation ==
    ret.op = "db.apply_algorithm" =>
        /\ ~Raised(ret)
        /\ IsPermutationOfInput
        /\ ScoresAreFinalScores
        /\ RankedAndStable
        /\ ret.args.results = <<>> => ret.result = <<>>

\* Three candidates were returned in another order than they were given: the
\* last one first, and the first two, whose scores are equal, in input order.
C25_Witness ==
    /\ ret.op = "db.apply_algorithm"
    /\ ~Raised(ret)
    /\ Len(ret.result) = 3
    /\ ret.result[1].post = ret.args.results[3].post
    /\ ret.result[2].post = ret.args.results[1].post
    /\ ret.result[3].post = ret.args.results[2].post
    /\ ret.result[2].score = ret.result[3].score
    /\ ret.args.results[1].similarity # ret.args.results[2].similarity

\* C26: apply_algorithm normalizes likes by the maximum likes value of the
\* candidates it is given and never divides by zero: when every candidate has
\* 0 likes the divisor is 1 and the likes term is 0 for all of them; otherwise
\* every candidate's normalized likes lies in [0, 1] and a candidate holding
\* the maximum gets exactly 1.
C26_LikesNormalized ==
    (ret.op = "db.apply_algorithm" /\ ret.args.results # <<>>) =>
        LET results == ret.args.results
            largest == LargestLikes(results)
        IN  /\ ~Raised(ret)
            /\ MaxLikes(results) = (IF largest = 0 THEN 1 ELSE largest)
            /\ \A k \in DOMAIN results :
                  LET share == NormalizedLikes(results, k)
                  IN  /\ share.d > 0
                      /\ 0 <= share.n /\ share.n <= share.d
                      /\ share.n * MaxLikes(results) = results[k].post.likes * share.d
                      /\ largest = 0 => share.n = 0
                      /\ (largest > 0 /\ results[k].post.likes = largest)
                            => share = Rat(1, 1)
            /\ ScoresAreFinalScores

\* No candidate has a like, the likes weight is not 0, and the call answered.
C26_Witness ==
    /\ ret.op = "db.apply_algorithm"
    /\ ~Raised(ret)
    /\ Len(ret.result) >= 2
    /\ \A k \in DOMAIN ret.args.results : ret.args.results[k].post.likes = 0
    /\ LikesWeightOf(ret.args.weights) # 0

\* Some candidates have likes: one holds the maximum, another has fewer.
C26_WitnessShares ==
    /\ ret.op = "db.apply_algorithm"
    /\ ~Raised(ret)
    /\ \E a, b \in DOMAIN ret.args.results :
          /\ NormalizedLikes(ret.args.results, a) = Rat(1, 1)
          /\ NormalizedLikes(ret.args.results, b) = Rat(1, 2)

-----------------------------------------------------------------------------
(* A vector against itself *)

One == [sign |-> 1, n2 |-> 1, d2 |-> 1]

\* The vector a read asked about.
QueryOf(call) ==
    IF call.op = "db.search_posts" THEN call.args.query_vector ELSE call.args.vector

\* cosine_similarity is symmetric between the query and every stored vector,
\* and 1 between a stored vector and itself.
SymmetricAndSelfOne ==
    ret.op \in {"db.search_posts", "db.find_similar_posts"} =>
        \A i \in Indices(posts) :
            LET v == deserialize_vector(posts[i].vector)
            IN  /\ cosine_similarity(QueryOf(ret), v) = cosine_similarity(v, QueryOf(ret))
                /\ cosine_similarity(v, v) = One

\* A search for the vector of a stored post (that passes the hashtag filter)
\* lists first a post with that vector, at similarity 1.
OwnVectorRankedFirst ==
    (/\ ret.op = "db.search_posts"
     /\ ret.args.offset = 0
     /\ ret.args.limit >= 1
     /\ \E i \in SearchCandidates(ret.args.hashtag) :
           deserialize_vector(posts[i].vector) = ret.args.query_vector)
    => /\ ret.result # <<>>
       /\ ret.result[1].similarity = One
       /\ deserialize_vector(get_post(posts, ret.result[1].id)[1].vector)
             = ret.args.query_vector

\* find_similar_posts, asked for as many results as there are posts, reports
\* every post of `rows` whose vector is the one asked about, at similarity 1.
IdenticalReported(rows) ==
    (ret.op = "db.find_similar_posts" /\ ret.args.limit >= Len(posts)) =>
        \A i \in rows :
            deserialize_vector(posts[i].vector) = ret.args.vector
                => \E k \in DOMAIN ret.result :
                      /\ ret.result[k].id = posts[i].id
                      /\ ret.result[k].similarity = One

-----------------------------------------------------------------------------
(* The bytes of a stored vector *)

RECURSIVE FloorLog2(_)
FloorLog2(a) == IF a < 2 THEN 0 ELSE 1 + FloorLog2(a \div 2)

\* The four bytes of one float32, little-endian (IEEE 754 binary32: sign,
\* 8 bits of biased exponent, 23 bits of fraction), for an integer value that
\* float32 holds exactly.
Float32Bytes(x) ==
    IF x = 0 THEN <<0, 0, 0, 0>>
    ELSE LET a == IF x < 0 THEN -x ELSE x
             e == FloorLog2(a)
             biased == e + 127
             m == IF e <= 23 THEN (a - Pow2(e)) * Pow2(23 - e)
                  ELSE (a - Pow2(e)) \div Pow2(e - 23)
         IN  <<m % 256,
               (m \div 256) % 256,
               ((biased % 2) * 128) + (m \div 65536),
               (IF x < 0 THEN 128 ELSE 0) + (biased \div 2)>>

\* The float32 (an integer here) that four little-endian bytes hold.
BytesFloat32(b) ==
    LET biased == ((b[4] % 128) * 2) + (b[3] \div 128)
        m == ((b[3] % 128) * 65536) + (b[2] * 256) + b[1]
        e == biased - 127
        a == IF e >= 23 THEN (8388608 + m) * Pow2(e - 23)
             ELSE (8388608 + m) \div Pow2(23 - e)
    IN  IF biased = 0 /\ m = 0 THEN 0
        ELSE IF b[4] >= 128 THEN -a ELSE a

\* (a slip: the blob starts with a length byte)
tobytes_with_header(array) ==
    <<Len(array)>> \o
    [k \in 1..(4 * Len(array)) |->
        Float32Bytes(array[((k - 1) \div 4) + 1])[((k - 1) % 4) + 1]]

\* ndarray.tobytes() of a float32 array: the components' bytes, concatenated in
\* order.
tobytes(array) ==
    [k \in 1..(4 * Len(array)) |->
        Float32Bytes(array[((k - 1) \div 4) + 1])[((k - 1) % 4) + 1]]

\* np.frombuffer(data, dtype=np.float32): one float32 per four bytes.
frombuffer(data) ==
    [i \in 1..(Len(data) \div 4) |-> BytesFloat32(SubSeq(data, 4 * i - 3, 4 * i))]

\* np.frombuffer raises ValueError when the size is not a multiple of 4.
frombuffer_raises(data) == Len(data) % 4 # 0

\* The vectors encoded: up to MaxEncoded components, among them 2^24 + 1 and
\* 2^24 + 3, which float32 does not hold.
MaxEncoded == 2

Components == {0, 1, -1, 3, 17, -40, 16777216, 16777217, -16777219}

EncodedVectors == UNION {[1..n -> Components] : n \in 0..MaxEncoded}

InitCodec ==
    /\ identities = <<>>
    /\ posts = <<>>
    /\ likes = {}
    /\ notifications = <<>>
    /\ request_counts = [k \in Keys |-> 0]
    /\ conn = <<>>
    /\ db_lock = {}
    /\ ret \in {[op |-> "call", args |-> [vec |-> vec]] : vec \in EncodedVectors}

\* serialize_vector(vec): the blob.
CallSerializeVector ==
    /\ ret.op = "call"
    /\ Read("serialize_vector", ret.args, tobytes(serialize_vector(ret.args.vec)))

\* deserialize_vector(data) of the blob just made.
CallDeserializeVector ==
    /\ ret.op = "serialize_vector"
    /\ IF frombuffer_raises(ret.result)
       THEN Raises("deserialize_vector", [vec |-> ret.args.vec, data |-> ret.result],
                   "ValueError")
       ELSE Read("deserialize_vector", [vec |-> ret.args.vec, data |-> ret.result],
                 deserialize_vector(frombuffer(ret.result)))

NextCodec == CallSerializeVector \/ CallDeserializeVector

SpecCodec == InitCodec /\ [][NextCodec]_vars

\* Every component is a float32.
Representable(vec) == \A i \in DOMAIN vec : Float32(vec[i]) = vec[i]

\* The blob is the components' four bytes each, in order, and nothing else.
BlobLayout ==
    ret.op = "serialize_vector" =>
        /\ Len(ret.result) = 4 * Len(ret.args.vec)
        /\ \A k \in DOMAIN ret.result : ret.result[k] \in 0..255
        /\ \A i \in DOMAIN ret.args.vec :
              BytesFloat32(SubSeq(ret.result, 4 * i - 3, 4 * i)) = Float32(ret.args.vec[i])

RoundTrip ==
    ret.op = "deserialize_vector" =>
        /\ ~Raised(ret)
        /\ Len(ret.result) = Len(ret.args.vec)
        /\ Representable(ret.args.vec) => ret.result = ret.args.vec

\* C32: deserialize_vector(serialize_vector(v)) equals v component by component
\* for every v whose components are representable in float32; the encoding is
\* 4 bytes per component, concatenated in order, with no header or length
\* prefix: the blob has 4 x len(v) bytes.
C32_RoundTrip == BlobLayout /\ RoundTrip

\* A vector of two components, one of them 2^24, came back as it was.
C32_Witness ==
    /\ ret.op = "deserialize_vector"
    /\ ~Raised(ret)
    /\ Len(ret.args.vec) = 2
    /\ Len(ret.args.data) = 8
    /\ 16777216 \in {ret.args.vec[i] : i \in DOMAIN ret.args.vec}
    /\ ret.result = ret.args.vec

\* A component float32 does not hold comes back rounded.
RoundedComponent ==
    /\ ret.op = "deserialize_vector"
    /\ ~Raised(ret)
    /\ ret.args.vec = <<16777217>>
    /\ ret.result = <<16777216>>

-----------------------------------------------------------------------------
(* db.append_to_post on two connections at once *)

(***************************************************************************)
(* Each call opens its own connection.  The SELECT runs outside any        *)
(* transaction (sqlite3 opens one only before the UPDATE) and its cursor   *)
(* is dropped at once, so it leaves no lock behind; the UPDATE takes the   *)
(* write lock and writes the list the call computed from what it read.     *)
(***************************************************************************)
AppendCall(post_id, author_key, content) ==
    [pc |-> "select", post_id |-> post_id, author_key |-> author_key,
     content |-> content, appends |-> <<>>, result |-> <<>>]

\* SELECT author_key, appends FROM posts WHERE id = ?; the author check;
\* appends = json.loads(post['appends']); appends.append(...)
AppendSelect(c) ==
    /\ conn[c].pc = "select"
    /\ LET post == get_post(posts, conn[c].post_id)
       IN  IF post = Nothing \/ post[1].author_key # conn[c].author_key
           THEN conn' = [conn EXCEPT ![c].pc = "close", ![c].result = <<FALSE>>]
           ELSE conn' = [conn EXCEPT ![c].pc = "update",
                                     ![c].appends = Append(post[1].appends,
                                                           conn[c].content)]
    /\ UNCHANGED <<identities, posts, likes, notifications, request_counts, ret, db_lock>>

\* conn.execute("UPDATE posts SET appends = ? WHERE id = ?")
AppendUpdate(c) ==
    /\ conn[c].pc = "update"
    /\ WriteLockFree(db_lock, c)
    /\ db_lock' = {c}
    /\ conn' = [conn EXCEPT ![c].pc = "commit"]
    /\ UNCHANGED <<identities, posts, likes, notifications, request_counts, ret>>

\* conn.commit(); return True
AppendCommit(c) ==
    /\ conn[c].pc = "commit"
    /\ posts' = [i \in Indices(posts) |->
                    IF posts[i].id = conn[c].post_id
                    THEN [posts[i] EXCEPT !.appends = conn[c].appends]
                    ELSE posts[i]]
    /\ db_lock' = db_lock \ {c}
    /\ conn' = [conn EXCEPT ![c].pc = "close", ![c].result = <<TRUE>>]
    /\ UNCHANGED <<identities, likes, notifications, request_counts, ret>>

\* get_db's `finally: conn.close()`
AppendClose(c) ==
    /\ conn[c].pc = "close"
    /\ conn' = [conn EXCEPT ![c].pc = "done"]
    /\ db_lock' = db_lock \ {c}
    /\ UNCHANGED <<identities, posts, likes, notifications, request_counts, ret>>

\* Two posts by k1, the first with or without an earlier append, and two
\* append_to_post calls.
InitAppendRace ==
    /\ identities = <<>>
    /\ \E earlier \in {<<>>, <<"w">>} :
          posts = <<[PostRow("p1", "n1", "k1", NoMentions, VA, <<>>, None)
                        EXCEPT !.appends = earlier],
                    PostRow("p2", "n1", "k1", NoMentions, VA, <<>>, None)>>
    /\ likes = {}
    /\ notifications = <<>>
    /\ request_counts = [k \in Keys |-> 0]
    /\ ret = NoCall
    /\ conn \in [Conns -> {AppendCall(p, k, content) :
                              p \in {"p1", "p2", NoSuchPost}, k \in {"k1", "k2"},
                              content \in AppendContents}]
    /\ db_lock = {}

NextAppendRace ==
    \E c \in Conns :
        AppendSelect(c) \/ AppendUpdate(c) \/ AppendCommit(c) \/ AppendClose(c)

SpecAppendRace == InitAppendRace /\ [][NextAppendRace]_vars

\* How often `content` occurs in a list of appends.
Occurrences(appends, content) ==
    Cardinality({k \in DOMAIN appends : appends[k] = content})

\* The calls on post_id that returned True with this content.
ReturnedTrue(post_id, content) ==
    {c \in Conns : /\ conn[c].post_id = post_id
                   /\ conn[c].content = content
                   /\ conn[c].result = <<TRUE>>}

\* C33: when two append_to_post calls by the author on the same post overlap
\* and both return True, the stored appends list contains both entries: every
\* call that returned True has its entry in the list.
C33_NoLostAppend ==
    \A i \in Indices(posts), content \in AppendContents :
        Occurrences(posts[i].appends, content)
            >= Cardinality(ReturnedTrue(posts[i].id, content))

\* The part of it the code keeps: appends by calls on different posts, and by
\* calls of which one read after the other committed, are all stored.
AppendsOfLateReadersKept ==
    (\A c \in Conns : conn[c].pc = "done" /\ conn[c].result = <<TRUE>>)
        => \A c \in Conns :
              \/ Occurrences(get_post(posts, conn[c].post_id)[1].appends, conn[c].content)
                    >= Cardinality(ReturnedTrue(conn[c].post_id, conn[c].content))
              \/ \E d \in Conns \ {c} :
                    /\ conn[d].post_id = conn[c].post_id
                    /\ Len(conn[c].appends) = Len(conn[d].appends)

-----------------------------------------------------------------------------
(* POST /posts on two connections at once *)

(***************************************************************************)
(* The handler runs db.find_similar_posts on one connection, then          *)
(* db.create_post opens another for the INSERT and commits at once.        *)
(* Nothing ties the scan to the INSERT.  Every submission has force=false. *)
(***************************************************************************)
PostCall(vector) ==
    [pc |-> "check", vector |-> vector, force |-> FALSE, scanned |-> 0, row |-> 0,
     result |-> <<>>]

\* `if not post.force: similar = db.find_similar_posts(post.vector, limit=1)`:
\* `scanned` is the number of rows stored when the scan ran.
PostCheck(c) ==
    /\ conn[c].pc = "check"
    /\ LET similar == IF SkipDedup(conn[c].force) THEN 0
                      ELSE find_similar_posts(posts, conn[c].vector)
       IN  IF similar # 0
           THEN conn' = [conn EXCEPT ![c].pc = "done", ![c].scanned = Len(posts),
                            ![c].result = <<[id |-> "", warning |-> posts[similar].id]>>]
           ELSE conn' = [conn EXCEPT ![c].pc = "insert", ![c].scanned = Len(posts)]
    /\ UNCHANGED <<identities, posts, likes, notifications, request_counts, ret, db_lock>>

\* db.create_post: INSERT INTO posts ...; conn.commit(); conn.close()
PostInsert(c) ==
    /\ conn[c].pc = "insert"
    /\ WriteLockFree(db_lock, c)
    /\ posts' = db_create_post(posts, FreshId(posts), "n1", "k1", NoMentions,
                               conn[c].vector, <<>>, None)
    /\ conn' = [conn EXCEPT ![c].pc = "done", ![c].row = Len(posts) + 1,
                            ![c].result = <<[id |-> FreshId(posts), warning |-> None]>>]
    /\ UNCHANGED <<identities, likes, notifications, request_counts, ret, db_lock>>

\* What is stored before the two submissions: nothing, one post, or two posts
\* that are not near-duplicates of each other.
StoredBefore ==
    {<<>>, <<VA>>, <<VE>>, <<VA, VC>>, <<VC, VE>>}

RECURSIVE StorePosts(_, _)
StorePosts(ps, vectors) ==
    IF vectors = <<>> THEN ps
    ELSE StorePosts(db_create_post(ps, FreshId(ps), "n2", "k2", NoMentions,
                                   Head(vectors), <<>>, None),
                    Tail(vectors))

InitPostRace ==
    /\ identities = <<>>
    /\ \E vectors \in StoredBefore : posts = StorePosts(<<>>, vectors)
    /\ likes = {}
    /\ notifications = <<>>
    /\ request_counts = [k \in Keys |-> 0]
    /\ ret = NoCall
    /\ conn \in [Conns -> {PostCall(vector) : vector \in {VA, VB, VC}}]
    /\ db_lock = {}

NextPostRace == \E c \in Conns : PostCheck(c) \/ PostInsert(c)

SpecPostRace == InitPostRace /\ [][NextPostRace]_vars

\* Rows i < j are both in the dedup window and near-duplicates of each other.
NearDuplicatesInWindow(i, j) ==
    /\ i < j
    /\ i > Len(posts) - RecentWindow
    /\ AboveThreshold(cosine_similarity(deserialize_vector(posts[i].vector),
                                        deserialize_vector(posts[j].vector)))

\* C34 (as stated): when every post is submitted with force=false, no two
\* stored posts that both lie within the dedup window have cosine similarity
\* >= 0.85 to each other, also when two near-duplicate submissions are
\* processed concurrently.
C34_NoNearDuplicates ==
    \A i, j \in Indices(posts) : ~NearDuplicatesInWindow(i, j)

\* The submission that stored row j scanned before another row was stored and
\* inserted after it.
ScannedTooEarly(j) ==
    \E c \in Conns : conn[c].row = j /\ conn[c].scanned < j - 1

\* C34 (amended): when every post is submitted with force=false, two stored
\* posts that both lie within the dedup window have cosine similarity >= 0.85
\* to each other only if the later one was submitted concurrently with another
\* submission: its scan ran before a post was stored that was there when it
\* was inserted.
C34_NoNearDuplicatesInTurn ==
    \A i, j \in Indices(posts) : NearDuplicatesInWindow(i, j) => ScannedTooEarly(j)

\* Two near-duplicate submissions were processed one after the other: the first
\* is stored, the second was answered with the warning that names it.
C34_Witness ==
    \E c, d \in Conns :
        /\ conn[c].pc = "done" /\ conn[d].pc = "done"
        /\ conn[c].row > 0
        /\ conn[c].row = conn[c].scanned + 1
        /\ conn[d].scanned >= conn[c].row
        /\ conn[d].result = <<[id |-> "", warning |-> posts[conn[c].row].id]>>
        /\ conn[c].vector # conn[d].vector

-----------------------------------------------------------------------------
(* A like repeated through the endpoint *)

\* The step is an admitted like by k of a post that k has liked before.
RepeatedLike(k) ==
    /\ AnsweredFor("like_post", k)
    /\ <<ret'.req, k>> \in likes

RepeatedLikeIsNoOp ==
    \A k \in Keys : RepeatedLike(k) => UNCHANGED <<posts, likes, notifications>>

\* C35: a like repeated through the like endpoint, on a post the same user has
\* liked before, changes nothing: the counter and the ledger stay as they are
\* and no further "like" notification is created.
C35_RepeatedLikeNoOp == [][RepeatedLikeIsNoOp]_vars

\* The part about the store: the repeated like leaves the counter and the ledger
\* as they are and is answered with the unchanged count.
RepeatedLikeKeepsLedger ==
    [][\A k \in Keys : RepeatedLike(k) =>
            /\ UNCHANGED <<posts, likes>>
            /\ ret'.likes = get_post(posts, ret'.req)[1].likes]_vars

-----------------------------------------------------------------------------
(* POST /search with an algorithm *)

\* The float whose square is n2 / d2, for the similarities that are fractions
\* (1, 17/20 and 0 for the vectors stored here).
Isqrt(n) == CHOOSE r \in 0..n : r * r = n

RatOfReal(x) == Rat(x.sign * Isqrt(x.n2), Isqrt(x.d2))

\* The age in hours of each row when the search request arrives: just posted or
\* a day old, an earlier row at least as old as a later one.
AgesInHours(ps) ==
    {hours \in [Indices(ps) -> {0, 24}] :
        \A i, j \in Indices(ps) : i < j => hours[i] >= hours[j]}

\* The (post, similarity) pairs db.search_posts returned, as apply_algorithm
\* reads them: a post carries its likes and its age.
WithPosts(ps, results, hours) ==
    [k \in DOMAIN results |->
        LET i == CHOOSE i \in Indices(ps) : ps[i].id = results[k].id
        IN  [post |-> [id |-> results[k].id, likes |-> ps[i].likes, hours |-> hours[i]],
             similarity |-> RatOfReal(results[k].similarity)]]

\* (a slip: the algorithm is applied to every match, the limit afterwards)
RankedResultsBeforeLimit(ps, search, hours) ==
    PySlice(apply_algorithm(WithPosts(ps,
                                db_search_posts(ps, search.query_vector, search.hashtag,
                                                Len(ps), 0),
                                hours),
                            search.algorithm[1]),
            0, ClampLimit(search.limit))

\* results = db.search_posts(query_vector, hashtag=, limit=)
\* results = db.apply_algorithm(results, search.algorithm.weights)
RankedResults(ps, search, hours) ==
    apply_algorithm(WithPosts(ps,
                        db_search_posts(ps, search.query_vector, search.hashtag,
                                        ClampLimit(search.limit), 0),
                        hours),
                    search.algorithm[1])

\* The "results" of the response: post and score.
ResultsBody(results) ==
    [k \in DOMAIN results |-> [id |-> results[k].post.id, score |-> results[k].score]]

\* POST /search, the algorithm being absent (<<>>) or a weights dict.
search_posts_ranked(search, hours) ==
    IF Len(search.query_vector) # VECTOR_DIM
    THEN Answer("search_posts", search,
                Error(400, "Vector must have VECTOR_DIM dimensions"))
    ELSE IF search.algorithm = <<>>
    THEN Answer("search_posts", search,
                [status |-> 200,
                 results |-> db_search_posts(posts, search.query_vector, search.hashtag,
                                             ClampLimit(search.limit), 0)])
    ELSE Answer("search_posts", search,
                [status |-> 200,
                 results |-> ResultsBody(RankedResults(posts, search, hours))])

\* What is stored to be searched: an untagged post identical to the query, and
\* tagged posts at cosine 17/20 and 0 from it.
RankedStock ==
    {[vector |-> VA, hashtags |-> <<>>, reply |-> FALSE],
     [vector |-> VB, hashtags |-> <<TagAi>>, reply |-> FALSE],
     [vector |-> VC, hashtags |-> <<TagAi>>, reply |-> FALSE]}

\* Algorithms that rank by likes alone and by recency alone, and the defaults.
SearchAlgorithms ==
    {<<>>,
     <<<<>> @@ ("semantic_similarity" :> 0) @@ ("likes" :> 10) @@ ("recency_decay" :> 0)>>,
     <<<<>> @@ ("semantic_similarity" :> 0) @@ ("likes" :> 0) @@ ("recency_decay" :> 10)>>,
     <<<<>>>>}

SearchRequests ==
    {[query_vector |-> VA, hashtag |-> hashtag, limit |-> limit,
      algorithm |-> algorithm] :
        hashtag \in {NoHashtag, TagAi}, limit \in {-1, 1, 3},
        algorithm \in SearchAlgorithms}
    \cup {[query_vector |-> VShort, hashtag |-> NoHashtag, limit |-> 1,
           algorithm |-> <<>>]}

NextRanked ==
    \/ StorePost(RankedStock)
    \/ CallLikeStored
    \/ \E search \in SearchRequests, hours \in AgesInHours(posts) :
          search_posts_ranked(search, hours)

SpecRanked == InitStore /\ [][NextRanked]_vars

\* The ids of a response's results.
ReturnedIds == {ret.results[k].id : k \in DOMAIN ret.results}

\* The rows the hashtag of the request selects.
Matching == {i \in Indices(posts) : HashtagGiven(ret.req.hashtag)
                                       => MatchesHashtag(posts[i], ret.req.hashtag)}

RawSimilarity(i) == Similarity(ret.req.query_vector, deserialize_vector(posts[i].vector))

\* The request was answered with results.
SearchAnswered == ret.op = "search_posts" /\ ret.status = 200

\* C36: for the search endpoint, an algorithm changes the order and the scores
\* of the results and never which posts are returned: the posts returned are
\* the ones the same request returns without an algorithm, they are `limit`
\* (at most 100) of the posts the hashtag selects, or all of them if there are
\* fewer, and no post left out has a higher raw similarity than a post
\* returned, whatever its likes and its age.
C36_AlgorithmKeepsSet ==
    SearchAnswered =>
        /\ ReturnedIds =
              LET plain == db_search_posts(posts, ret.req.query_vector, ret.req.hashtag,
                                           ClampLimit(ret.req.limit), 0)
              IN  {plain[k].id : k \in DOMAIN plain}
        /\ ReturnedIds \subseteq {posts[i].id : i \in Matching}
        /\ Cardinality(ReturnedIds) = Len(ret.results)
        /\ ret.req.limit >= 0 =>
              Len(ret.results) =
                  IF ClampLimit(ret.req.limit) < Cardinality(Matching)
                  THEN ClampLimit(ret.req.limit) ELSE Cardinality(Matching)
        /\ \A i, j \in Matching :
              posts[i].id \in ReturnedIds /\ posts[j].id \notin ReturnedIds
                  => ~SimGT(RawSimilarity(j), RawSimilarity(i))

\* A search ranked by likes returned the two most similar posts, the liked one
\* first although it is the less similar, and left out a liked post that is
\* less similar than both.
C36_Witness ==
    /\ SearchAnswered
    /\ ret.req.algorithm # <<>>
    /\ Len(ret.results) = 2
    /\ \E i, j, l \in Matching :
          /\ ret.results[1].id = posts[i].id
          /\ ret.results[2].id = posts[j].id
          /\ SimGT(RawSimilarity(j), RawSimilarity(i))
          /\ posts[l].id \notin ReturnedIds
          /\ posts[l].likes > posts[j].likes

-----------------------------------------------------------------------------
(* db.like_post for a post that is not stored *)

\* The step is a call of db.like_post with an id that names no stored post.
LikeOfMissingPost ==
    /\ ret'.op = "db.like_post"
    /\ get_post(posts, ret'.args.post_id) = Nothing

LedgerRefersToPosts == \A l \in likes : l[1] \in PostIdsOf(posts)

\* C37: like_post called with a post id that names no stored post returns 0 and
\* leaves the like ledger and every post unchanged, so every row of the like
\* ledger refers to an existing post.
C37_MissingPostNotLiked ==
    /\ []LedgerRefersToPosts
    /\ [][LikeOfMissingPost => ret'.result = 0 /\ UNCHANGED <<posts, likes>>]_vars

\* What holds of such a call: it returns 0 and changes no post.
MissingPostLikeReturnsZero ==
    [][LikeOfMissingPost => ret'.result = 0 /\ UNCHANGED posts]_vars

-----------------------------------------------------------------------------
(* check_rate_limit with its timestamps *)

(***************************************************************************)
(* request_counts[user_key] is the list of the times of the admitted       *)
(* requests of the key that were less than a minute old at its last check. *)
(* Time is counted in ticks, Minute ticks to the minute; datetime.utcnow() *)
(* does not go backwards between two checks.  conn keeps the checks made   *)
(* so far, in order, each with its key, its time and its answer.           *)
(***************************************************************************)
Minute == 2
\* The last tick of the clock, and the number of checks made.
MaxTime == 4
MaxChecks == 4

\* (a slip: >= where the code has >)
RecentRequestsInclusive(times, now) == SelectSeq(times, LAMBDA t : t >= now - Minute)

\* [t for t in request_counts[user_key] if t > minute_ago]
RecentRequests(times, now) == SelectSeq(times, LAMBDA t : t > now - Minute)

\* `if len(request_counts[user_key]) >= RATE_LIMIT: return False`
WithinRateLimit(times, now) == Len(RecentRequests(times, now)) < RATE_LIMIT

\* request_counts[user_key] after the check.
CheckedRequests(times, now) ==
    IF WithinRateLimit(times, now)
    THEN Append(RecentRequests(times, now), now)
    ELSE RecentRequests(times, now)

ClockNow == IF conn = <<>> THEN 0 ELSE conn[Len(conn)].now

InitRateLimit ==
    /\ identities = <<>>
    /\ posts = <<>>
    /\ likes = {}
    /\ notifications = <<>>
    /\ request_counts = [k \in Keys |-> <<>>]
    /\ ret = NoCall
    /\ conn = <<>>
    /\ db_lock = {}

CallCheckRateLimit ==
    \E user_key \in {"k1", "k2"}, now \in ClockNow..MaxTime :
        /\ Len(conn) < MaxChecks
        /\ request_counts' = [request_counts EXCEPT
                                 ![user_key] = CheckedRequests(@, now)]
        /\ ret' = [op |-> "check_rate_limit",
                   args |-> [user_key |-> user_key, now |-> now],
                   result |-> WithinRateLimit(request_counts[user_key], now)]
        /\ conn' = Append(conn, [user_key |-> user_key, now |-> now,
                                 admitted |-> WithinRateLimit(request_counts[user_key],
                                                              now)])
        /\ UNCHANGED <<identities, posts, likes, notifications, db_lock>>

NextRateLimit == CallCheckRateLimit

SpecRateLimit == InitRateLimit /\ [][NextRateLimit]_vars

\* The admitted checks of a key among the first n, with a time in (from, to].
AdmittedIn(user_key, n, from, to) ==
    {i \in 1..n : /\ conn[i].user_key = user_key
                  /\ conn[i].admitted
                  /\ conn[i].now > from
                  /\ conn[i].now <= to}

\* No window of a minute holds more than RATE_LIMIT admitted requests of a key.
AtMostLimitPerMinute ==
    \A user_key \in Keys, to \in 0..MaxTime :
        Cardinality(AdmittedIn(user_key, Len(conn), to - Minute, to)) <= RATE_LIMIT

\* A check is refused exactly when RATE_LIMIT admitted requests of the same key
\* are less than a minute old; the requests of other keys do not count.
RefusedIffLimitReached ==
    \A i \in Indices(conn) :
        ~conn[i].admitted
            <=> Cardinality(AdmittedIn(conn[i].user_key, i - 1,
                                       conn[i].now - Minute, conn[i].now)) >= RATE_LIMIT

\* The list of a key holds times of its admitted requests only.
OnlyAdmittedRecorded ==
    \A user_key \in Keys :
        \A k \in Indices(request_counts[user_key]) :
            \E i \in Indices(conn) : /\ conn[i].user_key = user_key
                                     /\ conn[i].admitted
                                     /\ conn[i].now = request_counts[user_key][k]

\* A check touches the list of its own key only, and adds its time to it only
\* when it admits the request.
CheckKeepsOtherKeys ==
    \A user_key \in Keys :
        /\ ret'.op = "check_rate_limit" /\ ret'.args.user_key # user_key
              => request_counts'[user_key] = request_counts[user_key]
        /\ ret'.op = "check_rate_limit" /\ ret'.args.user_key = user_key /\ ~ret'.result
              => Len(request_counts'[user_key]) <= Len(request_counts[user_key])

\* C38: check_rate_limit admits at most RATE_LIMIT (60) requests of an identity
\* within any one-minute window; a request is refused if and only if
\* RATE_LIMIT admitted requests of the same identity lie within the preceding
\* minute, so an identity is admitted again as soon as fewer than that are less
\* than a minute old; refused requests are not recorded, and one identity's
\* requests never affect another identity's allowance.
C38_RateLimit ==
    /\ [](AtMostLimitPerMinute /\ RefusedIffLimitReached /\ OnlyAdmittedRecorded)
    /\ [][CheckKeepsOtherKeys]_vars

\* A key was admitted, refused within the minute while the other key was
\* admitted, and admitted again exactly a minute after its first request.
C38_Witness ==
    \E a, b, c, d \in Indices(conn) :
        /\ a < b /\ b < d
        /\ conn[a].user_key = "k1" /\ conn[a].admitted
        /\ conn[b].user_key = "k1" /\ ~conn[b].admitted
        /\ conn[c].user_key = "k2" /\ conn[c].admitted /\ conn[c].now = conn[b].now
        /\ conn[d].user_key = "k1" /\ conn[d].admitted
        /\ conn[d].now = conn[a].now + Minute

-----------------------------------------------------------------------------
(* Mentions *)

\* Posts that mention: the second user twice; the first and the second user;
\* nobody registered, and the second user's name glued to a word ("x@n2");
\* the second user, and the first user's name glued to that mention ("@n2@n1").
MentionPostRequests ==
    {[content |-> content, vector |-> VA, hashtags |-> <<>>, parent_id |-> None,
      force |-> TRUE] :
        content \in {NoMentions,
                     <<"@", "n2", " ", "@", "n2">>,
                     <<"@", "n1", " ", "@", "n2">>,
                     <<"@", "nx", " ", "x", "@", "n2">>,
                     <<"@", "n2", "@", "n1">>}}

NextMentions ==
    \/ RegisterNext
    \/ \E public_key \in {"k1", "k2"} : approve_identity(public_key)
    \/ \E post \in MentionPostRequests, caller \in Posters : create_post(post, caller)
    \/ TimePasses

SpecMentions == InitStore /\ [][NextMentions]_vars

\* The content has an @name for this name: an "@" that no word character
\* precedes, followed by the name as a whole word.
Mentions(content, name) ==
    \E i \in 1..(Len(content) - 1) :
        /\ content[i] = "@"
        /\ content[i + 1] = name
        /\ i > 1 => ~IsWord(content[i - 1])

\* A step that stored a post added, for every registered identity other than
\* the author whose display name the content mentions, exactly one "mention"
\* row, addressed to that identity and naming the post and the author; and no
\* other "mention" row.
MentionsNotifyOnce ==
    Len(posts') = Len(posts) + 1 =>
        LET new == posts'[Len(posts')]
            added == AddedNotifications("mention")
            mentioned == {i \in Indices(identities) :
                             /\ identities[i].public_key # new.author_key
                             /\ Mentions(new.content, identities[i].display_name)}
        IN  /\ \A i \in mentioned :
                  Cardinality({k \in DOMAIN added :
                                  added[k].user_key = identities[i].public_key}) = 1
            /\ \A k \in DOMAIN added :
                  /\ \E i \in mentioned : added[k].user_key = identities[i].public_key
                  /\ added[k].post_id = new.id
                  /\ added[k].from_user = new.author
                  /\ ~added[k].read

\* C39: when a post is created, each distinct @name in its content that is the
\* display name of a registered identity other than the author yields exactly
\* one "mention" notification addressed to that identity, however many times
\* the name is repeated; self-mentions and names of no registered identity
\* yield none.
C39_MentionOnce == [][MentionsNotifyOnce]_vars

\* The first user's post mentions the second user twice and the second user has
\* one notification of it.
C39_Witness ==
    /\ ret.op = "create_post"
    /\ ret.status = 200
    /\ ret.id # ""
    /\ ret.req.content = <<"@", "n2", " ", "@", "n2">>
    /\ Cardinality({k \in DOMAIN notifications :
                       /\ notifications[k].type = "mention"
                       /\ notifications[k].user_key = "k2"
                       /\ notifications[k].post_id = ret.id}) = 1

\* A post that mentions its author and a name nobody has registered was stored
\* and nobody was notified.
C39_WitnessNone ==
    /\ ret.op = "create_post"
    /\ ret.status = 200
    /\ ret.id # ""
    /\ ret.req.content = <<"@", "n1", " ", "@", "n2">>
    /\ get_identity_by_name(identities, "n2") = Nothing
    /\ notifications = <<>>

-----------------------------------------------------------------------------
(* Routing of GET requests *)

(***************************************************************************)
(* The router tries the routes in the order the @app decorators declare    *)
(* them and calls the handler of the first whose path matches; a path      *)
(* parameter ({name}) matches any one segment.  A path is the sequence of  *)
(* its segments.                                                           *)
(***************************************************************************)
PathParam == "{}"

\* The GET routes of main.py, in the order of their declaration.
GetRoutes ==
    <<[path |-> <<"identity", PathParam>>, handler |-> "get_identity"],
      [path |-> <<"wireguard", "server-info">>, handler |-> "wireguard_server_info"],
      [path |-> <<"wireguard", "status">>, handler |-> "wireguard_status"],
      [path |-> <<"identity", "status">>, handler |-> "identity_status"],
      [path |-> <<"admin", "pending">>, handler |-> "list_pending"],
      [path |-> <<"posts", "new">>, handler |-> "list_posts_new"],
      [path |-> <<"posts", "hot">>, handler |-> "list_posts_hot"],
      [path |-> <<"posts", PathParam>>, handler |-> "get_post"],
      [path |-> <<"posts">>, handler |-> "list_posts"],
      [path |-> <<"notifications">>, handler |-> "get_notifications"],
      [path |-> <<"health">>, handler |-> "health"]>>

RouteMatches(route, path) ==
    /\ Len(route.path) = Len(path)
    /\ \A i \in DOMAIN path : route.path[i] \in {PathParam, path[i]}

\* The routes that match, in the order of declaration.
MatchingRoutes(routes, path) == SelectSeq(routes, LAMBDA route : RouteMatches(route, path))

\* The handler the router calls: "" when no route matches.
Dispatch(routes, path) ==
    IF MatchingRoutes(routes, path) = <<>> THEN ""
    ELSE MatchingRoutes(routes, path)[1].handler

\* main.require_identity_any: 401, 429, or 200 when the request is admitted.
require_identity_any(ids, counts, caller) ==
    LET who == get_identity_from_request(ids, caller)
    IN  IF who = Nothing THEN 401
        ELSE IF ~check_rate_limit(counts, who[1].public_key) THEN 429
        ELSE 200

\* GET /identity/{name}: the answer.
get_identity(name) ==
    LET identity == get_identity_by_name(identities, name)
    IN  IF identity = Nothing
        THEN Response("get_identity", name, Error(404, "Identity not found"))
        ELSE Response("get_identity", name,
                      [status |-> 200,
                       display_name |-> identity[1].display_name,
                       public_key |-> identity[1].public_key])

\* GET /identity/status: the answer.
identity_status(caller) ==
    LET status == require_identity_any(identities, request_counts, caller)
        who == get_identity_from_request(identities, caller)
    IN  IF status # 200 THEN Error(status, RefusalDetail(status))
        ELSE Response("identity_status", None,
                      [status |-> 200,
                       display_name |-> who[1].display_name,
                       approved |-> is_identity_approved(identities, who[1].public_key)])

\* request_counts after the dependency of identity_status ran.
require_identity_any_counts(ids, counts, caller) ==
    IF require_identity_any(ids, counts, caller) = 200
    THEN check_rate_limit_counts(counts, get_identity_from_request(ids, caller)[1].public_key)
    ELSE counts

\* A GET request for one of the identity paths, or for a path of no route.  The
\* answer is kept with the path and the caller of the request.
http_get(path, caller) ==
    /\ LET handler == Dispatch(GetRoutes, path)
           asked == [caller |-> caller, path |-> path]
       IN  CASE handler = "get_identity" ->
                   /\ ret' = get_identity(path[2]) @@ asked
                   /\ UNCHANGED request_counts
             [] handler = "identity_status" ->
                   /\ ret' = identity_status(caller) @@ asked
                   /\ request_counts' = require_identity_any_counts(identities,
                                                                    request_counts, caller)
             [] OTHER ->
                   /\ ret' = Error(404, "Not Found") @@ asked
                   /\ UNCHANGED request_counts
    /\ UNCHANGED <<identities, posts, likes, notifications, conn, db_lock>>

GetPaths ==
    {<<"identity", "status">>, <<"identity", "n1">>, <<"identity", "nx">>,
     <<"identity">>}

NextRoutes ==
    \/ RegisterNext
    \/ \E public_key \in {"k1", "k2"} : approve_identity(public_key)
    \/ \E path \in GetPaths, caller \in Callers : http_get(path, caller)

SpecRoutes == InitStore /\ [][NextRoutes]_vars

\* The step answers a GET /identity/status of a caller the request identifies.
StatusRequested ==
    /\ "path" \in DOMAIN ret'
    /\ ret'.path = <<"identity", "status">>
    /\ get_identity_from_request(identities, ret'.caller) # Nothing

\* C40: a GET /identity/status request from an identified caller, approved or
\* pending, is answered by the status handler with the caller's own display
\* name and approval status, and is not dispatched to the lookup of an identity
\* by name as a query for an identity named "status".
C40_StatusRouted ==
    [][StatusRequested =>
            LET who == get_identity_from_request(identities, ret'.caller)[1]
            IN  /\ ret'.op = "identity_status"
                /\ ret'.display_name = who.display_name
                /\ ret'.approved = is_identity_approved(identities, who.public_key)]_vars

\* What the router does with the request: the lookup by name answers it, as a
\* query for the name "status", with 404 as long as no identity has that name.
StatusShadowed ==
    [][StatusRequested =>
            /\ ret'.op = "get_identity"
            /\ ret'.req = "status"
            /\ ret'.status = 404
            /\ UNCHANGED request_counts]_vars

====
